---- MODULE Spec2Model ----
(***************************************************************************)
(* Request-dispatch core of the API gateway of fastapi-monorepo:           *)
(*   libs/http_client/circuit_breaker.py   CircuitBreaker                  *)
(*   libs/api_gateway/load_balancer.py     LoadBalancer,                   *)
(*                                         StickySessionManager            *)
(*   libs/api_gateway/middleware.py        RateLimitingMiddleware          *)
(*   libs/api_gateway/gateway.py           APIGateway                      *)
(*   libs/api_gateway/metrics.py           GatewayMetrics                  *)
(* Every coroutine of the program runs on one asyncio event loop, so the   *)
(* code between two suspension points is one atomic step.  The asyncio     *)
(* locks of these classes guard blocks that contain no await and are never *)
(* held across a suspension: acquiring them never suspends.                *)
(***************************************************************************)
EXTENDS Integers, Sequences, FiniteSets, TLC

(***************************************************************************)
(* Bounds of the model.                                                    *)
(***************************************************************************)
NumCalls == 2
MaxTime == 4
MaxFailures == 4
MaxFailureThreshold == 2
MaxSuccessThreshold == 2
MaxRecoveryTimeout == 2
MaxInstances == 3
MaxWeightedInstances == 2
MaxWeight == 2
MaxInFlight == 1
MaxLimit == 2
MaxSessionTimeout == 2
MaxSessionTime == 3
MaxRoutes == 2
MaxPathLen == 3
MaxUpstreams == 2
MaxChecked == 2
MaxLoops == 2
MaxProbes == 2
MaxCallbacks == 1
MaxHooks == 2
MaxRecorded == 2
MaxSegments == 4
MaxAttempts == 3
MaxCheckTime == 1
MaxRouteInstances == 3

VARIABLES
    \* ---- CircuitBreaker (circuit_breaker.py:39-46) ----
    state,                  \* self.state
    failure_count,          \* self.failure_count
    success_count,          \* self.success_count
    last_failure_time,      \* self.last_failure_time
    failure_threshold,      \* self.config.failure_threshold
    recovery_timeout,       \* self.config.recovery_timeout
    success_threshold,      \* self.config.success_threshold
    now,                    \* time.time()
    pc,                     \* where each caller of call() is
    event,                  \* what the latest step of a caller was
    \* ---- history variables of the breaker (not program state) ----
    consecutive_failures,   \* failed calls since the latest successful one
    period_successes,       \* successful calls since HALF_OPEN was entered
    probe,                  \* the call in flight that moved OPEN to HALF_OPEN, or 0
    prev_state              \* self.state before the latest step

cbVars == <<state, failure_count, success_count, last_failure_time,
            failure_threshold, recovery_timeout, success_threshold,
            now, pc, event, consecutive_failures, period_successes,
            probe, prev_state>>

VARIABLES
    \* ---- LoadBalancer (load_balancer.py:50-61) and the instance list ----
    algorithm,              \* self.algorithm
    health_check_enabled,   \* self.health_check_enabled
    weight,                 \* instances[i].weight, in list order
    healthy,                \* instances[i].healthy
    round_robin_index,      \* self._round_robin_index
    connection_stats,       \* self._connection_stats, keyed by instance
    selected,               \* what the latest select_instance returned, 0 for None
    last_ip,                \* the client_ip that the latest select_instance read
    lb_event,               \* what the latest step of the balancer was
    \* ---- history variables of the balancer (not program state) ----
    recent,                 \* the selections made in a row on the eligible list
    recent_from,            \* the cursor position the first of them was made at
    first_window,           \* no selection was made before those
    pinned                  \* one earlier IP-hash selection on the eligible list

lbVars == <<algorithm, health_check_enabled, weight, healthy, round_robin_index,
            connection_stats, selected, last_ip, lb_event,
            recent, recent_from, first_window, pinned>>

VARIABLES
    \* ---- RateLimitingMiddleware (middleware.py:148-154) and its config ----
    rl_enabled,             \* self.config.enabled
    by_ip,                  \* self.config.by_ip
    by_user,                \* self.config.by_user
    by_service,             \* self.config.by_service
    default_rpm,            \* self.config.default_rpm
    default_burst,          \* self.config.default_burst
    rate_limits,            \* self._rate_limits: key -> its "requests" list
    current_time,           \* time.time() as the gateway package reads it
    rl_keys,                \* the keys of the latest dispatch, in dict order
    rl_response,            \* what the latest dispatch did
    rl_key,                 \* the key whose check rejected it
    \* ---- history variables of the rate limiter (not program state) ----
    admitted,               \* key -> the times, less than a rate window
                            \* ago, of the requests admitted on it
    last_limited            \* the key whose rpm check last rejected a request

\* The limiter without the clock.
rlState == <<rl_enabled, by_ip, by_user, by_service, default_rpm, default_burst,
             rate_limits, rl_keys, rl_response, rl_key, admitted, last_limited>>

rlVars == <<rl_enabled, by_ip, by_user, by_service, default_rpm, default_burst,
            rate_limits, current_time, rl_keys, rl_response, rl_key,
            admitted, last_limited>>

VARIABLES
    \* ---- StickySessionManager (load_balancer.py:286-289) ----
    session_timeout,        \* self.session_timeout
    sessions,               \* self._sessions
    ss_session_id,          \* the session_id of the latest get_session_instance
    ss_instances,           \* the instances it was given
    ss_result,              \* what it returned, 0 for None
    ss_event,               \* what the latest step of the manager was
    \* ---- history variables of the manager (not program state) ----
    created                 \* session_id -> its latest create_session

ssVars == <<session_timeout, sessions, ss_session_id, ss_instances, ss_result,
            ss_event, created>>

VARIABLES
    \* ---- APIGateway routing (gateway.py:59-62) ----
    routes,                 \* self.routes, in insertion order
    rt_path,                \* the path of the latest route lookup
    rt_result,              \* the route it returned, or NoRoute
    rt_status               \* the status the handler raised on it, 0 for none

rtVars == <<routes, rt_path, rt_result, rt_status>>

VARIABLES
    \* ---- APIGateway forwarding (gateway.py:161-345) ----
    sticky_sessions,        \* self.config.load_balancer.sticky_sessions
    total_requests,         \* ConnectionStats.total_requests, by instance
    failed_requests,        \* ConnectionStats.failed_requests, by instance
    metrics_total_requests, \* GatewayMetrics._total_requests
    metrics_total_errors,   \* GatewayMetrics._total_errors
    requests,               \* where each request is, and what it carries
    \* ---- history variables of the forwarder (not program state) ----
    upstream_failures       \* failed upstream calls since the latest good one

gwVars == <<sticky_sessions, total_requests, failed_requests,
            metrics_total_requests, metrics_total_errors, requests,
            upstream_failures>>

VARIABLES
    \* ---- HealthChecker (health_checker.py:41-46) and the instances ----
    hc_method,              \* self.config.health_check_method
    hc_running,             \* self._running
    hc_task,                \* self._task, 0 for None
    hc_loops,               \* where each health_check_loop task ever created is
    hc_probe,               \* the check_instance_health of the cycle, by instance
    last_health_check,      \* instances[i].last_health_check, -1 for None
    health_history,         \* self._health_history, by instance
    health_callbacks,       \* self._health_callbacks, by name
    hc_caller,              \* where the caller of start and stop is
    \* ---- history variables of the checker (not program state) ----
    hc_event,               \* what the latest step of the checker was
    hc_result,              \* the probe that ended last
    hc_called               \* the callbacks that this probe was handed to

hcVars == <<hc_method, hc_running, hc_task, hc_loops, hc_probe,
            last_health_check, health_history, health_callbacks, hc_caller,
            hc_event, hc_result, hc_called>>

VARIABLES
    \* ---- APIGateway.start / stop and the loop of the balancer ----
    gw_phase,               \* "new", "started" or "stopped"
    lb_loops,               \* where each health_check_loop task of
                            \* LoadBalancer.start_health_checks is, and the
                            \* instances whose probe it awaits
    \* ---- history variables of the life cycle (not program state) ----
    gl_event                \* what the latest step was

glVars == <<gw_phase, lb_loops, gl_event>>

VARIABLES
    \* ---- the routes of one balancer (gateway.py:46-62) ----
    upstreams,              \* routes[r].upstream_instances, by route
    \* ---- history variables of the routes (not program state) ----
    mr_route,               \* the route of the latest selection, 0 for none
    mr_last                 \* the instance selected last for each route

mrVars == <<upstreams, mr_route, mr_last>>

VARIABLES
    \* ---- the middleware stack of the gateway (gateway.py:70-101) ----
    mw_auth_enabled,        \* self.config.auth.enabled
    mw_stack,               \* app.user_middleware, the outermost first
    mw_req                  \* the request on its way through the stack

mwVars == <<mw_auth_enabled, mw_stack, mw_req>>

VARIABLES
    \* ---- GatewayMetrics (metrics.py:89-120) ----
    status_code_counts,     \* self._status_code_counts
    response_time_buckets,  \* self._response_time_buckets
    service_metrics,        \* self._service_metrics, by service name
    \* ---- history variables of the metrics (not program state) ----
    mt_event                \* the latest call and its arguments

mtVars == <<status_code_counts, response_time_buckets, service_metrics, mt_event>>

VARIABLES
    \* ---- one call of APIGateway._build_upstream_url ----
    url_strip,              \* route_config.strip_path_prefix
    url_path,               \* path
    url_result              \* what it returned, <<>> before it has

urlVars == <<url_strip, url_path, url_result>>

VARIABLES
    \* ---- one call of ServiceClient._execute_with_retry ----
    sc_max_attempts,        \* self.retry_config.max_attempts
    sc_attempt,             \* attempt, the loop variable
    sc_pc,                  \* where the call is
    sc_last_exception,      \* last_exception, "none" for None
    sc_result,              \* what the call returned or raised
    \* ---- history variables of the call (not program state) ----
    sc_responses            \* what each attempt made so far ended with

scVars == <<sc_max_attempts, sc_attempt, sc_pc, sc_last_exception, sc_result,
            sc_responses>>

exVars == <<mwVars, mtVars, urlVars, scVars>>

\* The background tasks, the route lists and the components around them.
bgVars == <<hcVars, glVars, mrVars, exVars>>

vars == <<cbVars, lbVars, rlVars, ssVars, rtVars, gwVars, bgVars>>

(***************************************************************************)
(* CircuitBreaker                                                          *)
(***************************************************************************)
CLOSED == "closed"
OPEN == "open"
HALF_OPEN == "half_open"
CircuitBreakerState == {CLOSED, OPEN, HALF_OPEN}

Calls == 1..NumCalls

\* What the other components' variables do during a step of the breaker.
CBFrame == UNCHANGED <<lbVars, rlVars, ssVars, rtVars, gwVars, bgVars>>

\* CircuitBreaker.__init__ with a CircuitBreakerConfig of the caller's choice.
CBInit ==
    /\ state = CLOSED
    /\ failure_count = 0
    /\ success_count = 0
    /\ last_failure_time = 0
    /\ failure_threshold \in 1..MaxFailureThreshold
    /\ recovery_timeout \in 1..MaxRecoveryTimeout
    /\ success_threshold \in 1..MaxSuccessThreshold
    /\ now = 0
    /\ pc = [c \in Calls |-> "idle"]
    /\ event = "none"
    /\ consecutive_failures = 0
    /\ period_successes = 0
    /\ probe = 0
    /\ prev_state = CLOSED

\* The breaker before any call, for the specifications of other components.
CBIdle ==
    /\ state = CLOSED
    /\ failure_count = 0
    /\ success_count = 0
    /\ last_failure_time = 0
    /\ failure_threshold = 1
    /\ recovery_timeout = 1
    /\ success_threshold = 1
    /\ now = 0
    /\ pc = [c \in Calls |-> "idle"]
    /\ event = "none"
    /\ consecutive_failures = 0
    /\ period_successes = 0
    /\ probe = 0
    /\ prev_state = CLOSED

\* Mutation: the difference of the two times is taken the wrong way round.
ShouldAttemptReset_Reversed ==
    (last_failure_time - now) >= recovery_timeout

\* Mutation: the recovery timeout is measured from the start of the clock,
\* not from the latest failure.
ShouldAttemptReset_FromZero ==
    now >= recovery_timeout

\* _should_attempt_reset
ShouldAttemptReset ==
    (now - last_failure_time) >= recovery_timeout

\* Mutation: an OPEN breaker whose timeout has elapsed lets the call through
\* but stays OPEN.
Admit_StaysOpen(c) ==
    /\ pc' = [pc EXCEPT ![c] = "running"]
    /\ event' = "admitted"
    /\ UNCHANGED <<state, failure_count, success_count, last_failure_time,
                   consecutive_failures, period_successes, probe>>

\* The locked block at the head of call(): the call is admitted (and an OPEN
\* breaker whose timeout has elapsed becomes HALF_OPEN first), or it raises
\* CircuitBreakerOpenError before the wrapped function is touched.
Admit(c) ==
    /\ state' = IF state = OPEN THEN HALF_OPEN ELSE state
    /\ period_successes' = IF state = OPEN THEN 0 ELSE period_successes
    /\ probe' = IF state = OPEN THEN c ELSE probe
    /\ pc' = [pc EXCEPT ![c] = "running"]
    /\ event' = "admitted"
    /\ UNCHANGED <<failure_count, success_count, last_failure_time,
                   consecutive_failures>>

Reject(c) ==
    /\ event' = "rejected"
    /\ UNCHANGED <<state, failure_count, success_count, last_failure_time,
                   pc, consecutive_failures, period_successes, probe>>

Call(c) ==
    /\ pc[c] = "idle"
    /\ IF state = OPEN /\ ~ShouldAttemptReset
          THEN Reject(c)
          ELSE Admit(c)
    /\ prev_state' = state
    /\ UNCHANGED <<failure_threshold, recovery_timeout, success_threshold, now>>
    /\ CBFrame

\* Mutation: a success counts towards closing whenever the circuit is not
\* CLOSED.
OnSuccess_ClosesFromOpen ==
    /\ failure_count' = 0
    /\ IF state # CLOSED
          THEN IF success_count + 1 >= success_threshold
                  THEN /\ state' = CLOSED
                       /\ success_count' = 0
                  ELSE /\ state' = state
                       /\ success_count' = success_count + 1
          ELSE UNCHANGED <<state, success_count>>
    /\ UNCHANGED last_failure_time

\* Mutation: a success leaves failure_count alone.
OnSuccess_KeepsFailures ==
    /\ IF state = HALF_OPEN
          THEN IF success_count + 1 >= success_threshold
                  THEN /\ state' = CLOSED
                       /\ success_count' = 0
                  ELSE /\ state' = state
                       /\ success_count' = success_count + 1
          ELSE UNCHANGED <<state, success_count>>
    /\ UNCHANGED <<failure_count, last_failure_time>>

\* _on_success
OnSuccess ==
    /\ failure_count' = 0
    /\ IF state = HALF_OPEN
          THEN IF success_count + 1 >= success_threshold
                  THEN /\ state' = CLOSED
                       /\ success_count' = 0
                  ELSE /\ state' = state
                       /\ success_count' = success_count + 1
          ELSE UNCHANGED <<state, success_count>>
    /\ UNCHANGED last_failure_time

\* Mutation: a failure in HALF_OPEN reopens the circuit without restarting
\* the failure clock.
OnFailure_KeepsClock ==
    /\ failure_count' = failure_count + 1
    /\ last_failure_time' = IF state = HALF_OPEN THEN last_failure_time ELSE now
    /\ state' = IF state = HALF_OPEN
                   THEN OPEN
                   ELSE IF state = CLOSED /\ failure_count + 1 >= failure_threshold
                           THEN OPEN
                           ELSE state
    /\ UNCHANGED success_count

\* _on_failure
OnFailure ==
    /\ failure_count' = failure_count + 1
    /\ last_failure_time' = now
    /\ state' = IF state = HALF_OPEN
                   THEN OPEN
                   ELSE IF state = CLOSED /\ failure_count + 1 >= failure_threshold
                           THEN OPEN
                           ELSE state
    /\ UNCHANGED success_count

\* The wrapped function returns within the timeout: _on_success, then the
\* result is returned.
Succeed(c) ==
    /\ pc[c] = "running"
    /\ OnSuccess
    /\ pc' = [pc EXCEPT ![c] = "idle"]
    /\ event' = "success"
    /\ probe' = IF probe = c THEN 0 ELSE probe
    /\ prev_state' = state
    /\ consecutive_failures' = 0
    /\ period_successes' = IF state = HALF_OPEN THEN period_successes + 1
                                                ELSE period_successes
    /\ UNCHANGED <<failure_threshold, recovery_timeout, success_threshold, now>>
    /\ CBFrame

\* The wrapped function raises, or asyncio.wait_for raises TimeoutError:
\* _on_failure, then the exception is raised again.
Fail(c, kind) ==
    /\ pc[c] = "running"
    /\ failure_count < MaxFailures
    /\ OnFailure
    /\ pc' = [pc EXCEPT ![c] = "idle"]
    /\ event' = kind
    /\ probe' = IF probe = c THEN 0 ELSE probe
    /\ prev_state' = state
    /\ consecutive_failures' = consecutive_failures + 1
    /\ UNCHANGED period_successes
    /\ UNCHANGED <<failure_threshold, recovery_timeout, success_threshold, now>>
    /\ CBFrame

\* The caller's task is cancelled while the wrapped function runs:
\* CancelledError is no Exception, so neither handler runs.
Cancel(c) ==
    /\ pc[c] = "running"
    /\ pc' = [pc EXCEPT ![c] = "idle"]
    /\ event' = "cancelled"
    /\ probe' = IF probe = c THEN 0 ELSE probe
    /\ prev_state' = state
    /\ UNCHANGED <<state, failure_count, success_count, last_failure_time,
                   consecutive_failures, period_successes>>
    /\ UNCHANGED <<failure_threshold, recovery_timeout, success_threshold, now>>
    /\ CBFrame

\* The clock advances.
Tick ==
    /\ now < MaxTime
    /\ now' = now + 1
    /\ event' = "tick"
    /\ prev_state' = state
    /\ UNCHANGED <<state, failure_count, success_count, last_failure_time,
                   failure_threshold, recovery_timeout, success_threshold,
                   pc, consecutive_failures, period_successes, probe>>
    /\ CBFrame

NextCB ==
    \/ \E c \in Calls : Call(c)
    \/ \E c \in Calls : Succeed(c)
    \/ \E c \in Calls : \E kind \in {"failure", "timeout"} : Fail(c, kind)
    \/ \E c \in Calls : Cancel(c)
    \/ Tick

\* A balancer that is constructed and never used.
LBIdle ==
    /\ algorithm = "round_robin"
    /\ health_check_enabled = TRUE
    /\ weight = <<>>
    /\ healthy = <<>>
    /\ round_robin_index = 0
    /\ connection_stats = <<>>
    /\ selected = 0
    /\ last_ip = ""
    /\ lb_event = "none"
    /\ recent = <<>>
    /\ recent_from = 0
    /\ first_window = TRUE
    /\ pinned = <<>>

\* No rate-limit key: the request was not rejected.
NoKey == [type |-> "none", id |-> <<>>]

\* No route: the value None of _find_matching_route.
NoRoute == [path |-> <<>>, service_name |-> ""]

\* A rate limiter that is constructed and never used.
RLIdle ==
    /\ rl_enabled = TRUE
    /\ by_ip = TRUE
    /\ by_user = TRUE
    /\ by_service = TRUE
    /\ default_rpm = 1
    /\ default_burst = 1
    /\ rate_limits = <<>>
    /\ current_time = 0
    /\ rl_keys = <<>>
    /\ rl_response = "none"
    /\ rl_key = NoKey
    /\ admitted = <<>>
    /\ last_limited = NoKey

\* A session manager that is constructed and never used.
SSIdle ==
    /\ session_timeout = 1
    /\ sessions = <<>>
    /\ ss_session_id = ""
    /\ ss_instances = <<>>
    /\ ss_result = 0
    /\ ss_event = "none"
    /\ created = <<>>

\* A gateway without routes.
RTIdle ==
    /\ routes = <<>>
    /\ rt_path = <<>>
    /\ rt_result = NoRoute
    /\ rt_status = 0

\* A gateway that has received no request.
GWIdle ==
    /\ sticky_sessions = FALSE
    /\ total_requests = <<>>
    /\ failed_requests = <<>>
    /\ metrics_total_requests = 0
    /\ metrics_total_errors = 0
    /\ requests = <<>>
    /\ upstream_failures = 0

\* No result of a probe.
NoResult == [instance |-> 0, healthy |-> FALSE, outcome |-> "none"]

\* A health checker that was never started, on no instance.
HCIdle ==
    /\ hc_method = "http_get"
    /\ hc_running = FALSE
    /\ hc_task = 0
    /\ hc_loops = <<>>
    /\ hc_probe = <<>>
    /\ last_health_check = <<>>
    /\ health_history = <<>>
    /\ health_callbacks = <<>>
    /\ hc_caller = "idle"
    /\ hc_event = "none"
    /\ hc_result = NoResult
    /\ hc_called = <<>>

\* A gateway that was never started.
GLIdle ==
    /\ gw_phase = "new"
    /\ lb_loops = <<>>
    /\ gl_event = "none"

\* No route lists.
MRIdle ==
    /\ upstreams = <<>>
    /\ mr_route = 0
    /\ mr_last = <<>>

\* No request in the middleware stack.
NoRequest ==
    [at |-> 0, client_ip |-> "", token |-> "", path |-> <<>>, user_id |-> "",
     status |-> 0]

\* A gateway without middleware.
MWIdle ==
    /\ mw_auth_enabled = TRUE
    /\ mw_stack = <<>>
    /\ mw_req = NoRequest

\* The keys of self._response_time_buckets.
BucketNames ==
    {"0-50ms", "50-100ms", "100-250ms", "250-500ms", "500-1000ms", "1000ms+"}

\* GatewayMetrics.__init__
MTFresh ==
    /\ status_code_counts = <<>>
    /\ response_time_buckets = [b \in BucketNames |-> 0]
    /\ service_metrics = <<>>
    /\ mt_event = [call |-> "none"]

\* No call of _build_upstream_url.
URLIdle ==
    /\ url_strip = TRUE
    /\ url_path = <<>>
    /\ url_result = <<>>

\* No call of _execute_with_retry.
SCIdle ==
    /\ sc_max_attempts = 1
    /\ sc_attempt = 0
    /\ sc_pc = "idle"
    /\ sc_last_exception = "none"
    /\ sc_result = "none"
    /\ sc_responses = <<>>

EXIdle == MWIdle /\ MTFresh /\ URLIdle /\ SCIdle

BGIdle == HCIdle /\ GLIdle /\ MRIdle /\ EXIdle

\* The components that a specification leaves unused.
GatewayIdle == RLIdle /\ SSIdle /\ RTIdle /\ GWIdle /\ BGIdle

InitCB == CBInit /\ LBIdle /\ GatewayIdle

SpecCB == InitCB /\ [][NextCB]_vars

\* A failure that leaves the clock of the model room for the recovery
\* timeout to elapse after it.
FailInTime(c, kind) ==
    /\ now + recovery_timeout <= MaxTime
    /\ Fail(c, kind)

\* The callers of the liveness specification: two tasks that share the
\* breaker.
LiveCalls == {c \in Calls : c <= 2}

NextCBLive ==
    \/ \E c \in LiveCalls : Call(c)
    \/ \E c \in LiveCalls : Succeed(c)
    \/ \E c \in LiveCalls : \E kind \in {"failure", "timeout"} : FailInTime(c, kind)
    \/ \E c \in LiveCalls : Cancel(c)
    \/ Tick

\* The breaker opens at the first failure; recovery_timeout and
\* success_threshold range as in CBInit.
InitCBLive == InitCB /\ failure_threshold = 1

(***************************************************************************)
(* Steps of the breaker, as the claims speak of them.                      *)
(***************************************************************************)
Failures == {"failure", "timeout"}

\* A call in flight ended in this step.
Completes == \E c \in Calls : pc[c] = "running" /\ pc'[c] = "idle"
FailureStep == Completes /\ event' \in Failures
SuccessStep == Completes /\ event' = "success"
\* A call entered the wrapped function in this step.
AdmitStep == \E c \in Calls : pc[c] = "idle" /\ pc'[c] = "running"
\* A caller entered call() in this step: the clock stood still and no call
\* in flight ended.
CallStep == now' = now /\ ~Completes

(***************************************************************************)
(* C1. From CLOSED the breaker moves to OPEN exactly when failure_count    *)
(* reaches failure_threshold, recording last_failure_time; a success in    *)
(* CLOSED resets failure_count to 0, so the breaker trips on               *)
(* failure_threshold failures in a row with no success between them, and   *)
(* on no fewer.                                                            *)
(***************************************************************************)
C1_TripsOnConsecutiveFailures ==
    [][ state = CLOSED =>
          /\ state' \in {CLOSED, OPEN}
          /\ (state' = OPEN) <=> (FailureStep /\ failure_count' >= failure_threshold)
          /\ state' = OPEN =>
                /\ failure_count' = failure_threshold
                /\ consecutive_failures' = failure_threshold
                /\ last_failure_time' = now
          /\ SuccessStep => failure_count' = 0
          /\ consecutive_failures' < failure_threshold => state' = CLOSED
      ]_vars

\* The breaker has just tripped on the second of two failures in a row.
C1_Witness ==
    /\ prev_state = CLOSED
    /\ state = OPEN
    /\ event \in Failures
    /\ failure_threshold = 2
    /\ failure_count = 2
    /\ consecutive_failures = 2
    /\ last_failure_time = now
    /\ now > 0

(***************************************************************************)
(* C2. While the breaker is OPEN and less than recovery_timeout has        *)
(* elapsed since last_failure_time, a call() raises CircuitBreakerOpenError*)
(* without entering the wrapped function, and state, failure_count,        *)
(* success_count and last_failure_time are as before.                      *)
(***************************************************************************)
C2_OpenRejects ==
    [][ (state = OPEN /\ now - last_failure_time < recovery_timeout) =>
          /\ ~AdmitStep
          /\ CallStep =>
                /\ event' = "rejected"
                /\ UNCHANGED <<state, failure_count, success_count,
                               last_failure_time, pc>>
      ]_vars

\* A call was rejected after the clock moved, but not far enough.
C2_Witness ==
    /\ event = "rejected"
    /\ state = OPEN
    /\ now > last_failure_time
    /\ now - last_failure_time < recovery_timeout
    /\ last_failure_time > 0

(***************************************************************************)
(* C3 as stated. Once recovery_timeout has elapsed the next call moves the *)
(* breaker to HALF_OPEN and is let through as the probe, and no other call *)
(* is admitted while the probe is in flight.                               *)
(***************************************************************************)
C3_OnlyTheProbeIsAdmitted ==
    [][ probe # 0 => ~AdmitStep ]_vars

(***************************************************************************)
(* C3 as amended. When the breaker is OPEN and recovery_timeout has        *)
(* elapsed since last_failure_time, the next call sets the state to        *)
(* HALF_OPEN in the step that lets it into the wrapped function, and this  *)
(* is the only way into HALF_OPEN; while the breaker is HALF_OPEN every    *)
(* further call is let through as well, also one that arrives while the    *)
(* probe is in flight.                                                     *)
(***************************************************************************)
C3_ProbeOpensHalfOpen ==
    [][ /\ (state = OPEN /\ now - last_failure_time >= recovery_timeout /\ CallStep) =>
              /\ state' = HALF_OPEN
              /\ event' = "admitted"
              /\ \E c \in Calls :
                    /\ pc[c] = "idle"
                    /\ pc' = [pc EXCEPT ![c] = "running"]
                    /\ probe' = c
        /\ (state # HALF_OPEN /\ state' = HALF_OPEN) =>
              /\ state = OPEN
              /\ now - last_failure_time >= recovery_timeout
              /\ AdmitStep
        /\ (state = HALF_OPEN /\ CallStep) =>
              /\ AdmitStep
              /\ state' = HALF_OPEN
      ]_vars

\* A second call is in the wrapped function while the probe is in flight.
C3_Witness ==
    /\ state = HALF_OPEN
    /\ probe # 0
    /\ pc[probe] = "running"
    /\ prev_state = HALF_OPEN
    /\ event = "admitted"
    /\ \A c \in Calls : pc[c] = "running"

(***************************************************************************)
(* C4. In HALF_OPEN, success_threshold successful calls in a row move the  *)
(* breaker to CLOSED and reset failure_count and success_count to 0; fewer *)
(* successes leave it HALF_OPEN.                                           *)
(***************************************************************************)
C4_ClosesAfterThresholdSuccesses ==
    [][ (state = HALF_OPEN /\ SuccessStep) =>
          /\ period_successes' >= success_threshold =>
                /\ state' = CLOSED
                /\ failure_count' = 0
                /\ success_count' = 0
          /\ period_successes' < success_threshold => state' = HALF_OPEN
      ]_vars

(***************************************************************************)
(* C5. In HALF_OPEN one failed call (an exception or a timeout) moves the  *)
(* breaker to OPEN at once and sets last_failure_time to the time of that  *)
(* failure; the breaker then leaves OPEN only for HALF_OPEN, and only when *)
(* a full recovery_timeout has elapsed since last_failure_time.            *)
(***************************************************************************)
C5_HalfOpenFailureReopens ==
    [][ /\ (state = HALF_OPEN /\ FailureStep) =>
              /\ state' = OPEN
              /\ last_failure_time' = now
        /\ (state = OPEN /\ state' # OPEN) =>
              /\ state' = HALF_OPEN
              /\ now - last_failure_time >= recovery_timeout
        /\ (state = OPEN /\ AdmitStep) =>
              now - last_failure_time >= recovery_timeout
      ]_vars

\* A probe has just timed out, later than the failure that opened the circuit.
C5_Witness ==
    /\ prev_state = HALF_OPEN
    /\ state = OPEN
    /\ event = "timeout"
    /\ last_failure_time = now
    /\ now >= recovery_timeout
    /\ recovery_timeout = 2

\* C29: success_count is 0 whenever the breaker is not HALF_OPEN, and a
\* HALF_OPEN period closes the circuit only by success_threshold successes
\* of its own.
C29_SuccessCountOnlyInHalfOpen ==
    /\ state # HALF_OPEN => success_count = 0
    /\ (prev_state = HALF_OPEN /\ state = CLOSED)
          => period_successes >= success_threshold

\* A call in flight was cancelled in this step.
CancelStep == Completes /\ event' = "cancelled"

\* C31: a call in flight that ends, by success or by failure, while the
\* breaker is OPEN leaves it OPEN; the state leaves OPEN only in a step in
\* which a new call enters with recovery_timeout elapsed since
\* last_failure_time, and then it becomes HALF_OPEN.
C31_OnlyANewCallLeavesOpen ==
    [][ /\ (state = OPEN /\ Completes) => state' = OPEN
        /\ (state = OPEN /\ state' # OPEN)
              => /\ AdmitStep
                 /\ CallStep
                 /\ now - last_failure_time >= recovery_timeout
                 /\ state' = HALF_OPEN ]_vars

\* A call admitted before the breaker opened succeeds, and another fails,
\* while the breaker is OPEN.
C31_Witness ==
    /\ prev_state = OPEN
    /\ state = OPEN
    /\ event \in {"success", "failure", "timeout"}
    /\ now - last_failure_time < recovery_timeout \/ event = "success"
    /\ now >= recovery_timeout

\* Callers keep arriving, calls in flight return, and the clock advances.
SpecCBLive ==
    /\ InitCBLive
    /\ [][NextCBLive]_vars
    /\ WF_vars(\E c \in LiveCalls : Call(c))
    /\ WF_vars(\E c \in LiveCalls : Succeed(c))
    /\ WF_vars(Tick)

\* C40: if from some point on no call fails or is cancelled, a breaker that
\* is OPEN becomes HALF_OPEN and a breaker that is HALF_OPEN becomes CLOSED.
C40_OpenEventuallyCloses ==
    (<>[][~FailureStep /\ ~CancelStep]_vars)
       => /\ (state = OPEN) ~> (state = HALF_OPEN)
          /\ (state = HALF_OPEN) ~> (state = CLOSED)

\* A HALF_OPEN period was closed by two successes of its own.
C40_Witness ==
    /\ prev_state = HALF_OPEN
    /\ state = CLOSED
    /\ event = "success"
    /\ success_threshold = 2
    /\ period_successes >= 2
    /\ last_failure_time > 0

(***************************************************************************)
(* LoadBalancer                                                            *)
(***************************************************************************)
ROUND_ROBIN == "round_robin"
LEAST_CONNECTIONS == "least_connections"
WEIGHTED_ROUND_ROBIN == "weighted_round_robin"
IP_HASH == "ip_hash"
RANDOM == "random"
LoadBalancingAlgorithm ==
    {ROUND_ROBIN, LEAST_CONNECTIONS, WEIGHTED_ROUND_ROBIN, IP_HASH, RANDOM}

\* The client addresses of the model; "" stands for no client_ip (None).
ClientIPs == {"", "192.168.1.100", "10.0.0.2", "172.16.0.5"}

\* int(hashlib.md5(ip.encode()).hexdigest(), 16) modulo 840, a multiple of
\* every list length up to 8: (h % 840) % n = h % n for those lengths.
Md5Mod840(ip) ==
    CASE ip = "192.168.1.100" -> 450
      [] ip = "10.0.0.2" -> 128
      [] ip = "172.16.0.5" -> 397

\* What the other components' variables do during a step of the balancer.
LBFrame == UNCHANGED <<cbVars, rlVars, ssVars, rtVars, gwVars, bgVars>>

\* The instances of the list handed to select_instance, by position.
Instances == 1..Len(weight)

\* LoadBalancer.__init__, before any call.
LBFresh ==
    /\ round_robin_index = 0
    /\ connection_stats = <<>>
    /\ selected = 0
    /\ last_ip = ""
    /\ lb_event = "none"
    /\ recent = <<>>
    /\ recent_from = 0
    /\ first_window = TRUE
    /\ pinned = <<>>

\* LoadBalancer.__init__ with an algorithm and a health-check flag of the
\* caller's choice, and the route's list of ServiceInstance, each with the
\* default weight, 1, and the default healthy, True.
LBInit ==
    /\ algorithm \in LoadBalancingAlgorithm
    /\ health_check_enabled \in BOOLEAN
    /\ \E n \in 0..MaxInstances :
          /\ weight = [i \in 1..n |-> 1]
          /\ healthy = [i \in 1..n |-> TRUE]
    /\ LBFresh

\* A weighted round robin balancer, and a list of ServiceInstance with the
\* weights of the caller's choice.
WRRInit ==
    /\ algorithm = WEIGHTED_ROUND_ROBIN
    /\ health_check_enabled \in BOOLEAN
    /\ \E n \in 0..MaxWeightedInstances :
          /\ weight \in [1..n -> 0..MaxWeight]
          /\ healthy = [i \in 1..n |-> TRUE]
    /\ LBFresh

\* Mutation: the filter keeps every instance.
HealthyFrom_NoFilter(k) ==
    [i \in 1..(Len(weight) - k + 1) |-> i + k - 1]

\* The list comprehension of select_instance, from position k on.
RECURSIVE HealthyFrom(_)
HealthyFrom(k) ==
    IF k > Len(weight)
       THEN <<>>
       ELSE (IF ~health_check_enabled \/ healthy[k] THEN <<k>> ELSE <<>>)
            \o HealthyFrom(k + 1)

\* healthy_instances
HealthyInstances == HealthyFrom(1)

\* self._connection_stats.get(instance_key, ConnectionStats()).active_connections
ActiveConnections(i) ==
    IF i \in DOMAIN connection_stats
       THEN connection_stats[i].active_connections
       ELSE 0

\* Mutation: the cursor is not advanced.
RoundRobinSelect_Stuck(insts) ==
    [instance |-> insts[(round_robin_index % Len(insts)) + 1],
     index |-> round_robin_index]

\* _round_robin_select: the instance at the cursor, and the cursor after it.
RoundRobinSelect(insts) ==
    [instance |-> insts[(round_robin_index % Len(insts)) + 1],
     index |-> (round_robin_index + 1) % Len(insts)]

\* Mutation: an instance with as few connections replaces the one chosen.
RECURSIVE LeastConnectionsScan_LastWins(_, _, _, _)
LeastConnectionsScan_LastWins(insts, k, min_connections, selected_instance) ==
    IF k > Len(insts)
       THEN selected_instance
       ELSE IF min_connections = -1 \/ ActiveConnections(insts[k]) <= min_connections
               THEN LeastConnectionsScan_LastWins(insts, k + 1,
                                         ActiveConnections(insts[k]), insts[k])
               ELSE LeastConnectionsScan_LastWins(insts, k + 1,
                                         min_connections, selected_instance)

\* The loop of _least_connections_select from position k on; -1 stands for
\* float('inf').
RECURSIVE LeastConnectionsScan(_, _, _, _)
LeastConnectionsScan(insts, k, min_connections, selected_instance) ==
    IF k > Len(insts)
       THEN selected_instance
       ELSE IF min_connections = -1 \/ ActiveConnections(insts[k]) < min_connections
               THEN LeastConnectionsScan(insts, k + 1,
                                         ActiveConnections(insts[k]), insts[k])
               ELSE LeastConnectionsScan(insts, k + 1,
                                         min_connections, selected_instance)

\* _least_connections_select
LeastConnectionsSelect(insts) ==
    [instance |-> LeastConnectionsScan(insts, 1, -1, insts[1]),
     index |-> round_robin_index]

\* sum(instance.weight for instance in instances)
RECURSIVE TotalWeight(_)
TotalWeight(insts) ==
    IF insts = <<>> THEN 0 ELSE weight[Head(insts)] + TotalWeight(Tail(insts))

\* Mutation: every instance is put on the weighted list once.
WeightedInstances_Unweighted(insts) ==
    insts

\* weighted_instances: each instance repeated weight times, in list order.
RECURSIVE WeightedInstances(_)
WeightedInstances(insts) ==
    IF insts = <<>>
       THEN <<>>
       ELSE [k \in 1..weight[Head(insts)] |-> Head(insts)]
            \o WeightedInstances(Tail(insts))

\* _weighted_round_robin_select
WeightedRoundRobinSelect(insts) ==
    IF TotalWeight(insts) = 0
       THEN [instance |-> insts[1], index |-> round_robin_index]
       ELSE LET weighted_instances == WeightedInstances(insts)
            IN  [instance |-> weighted_instances[
                                 (round_robin_index % Len(weighted_instances)) + 1],
                 index |-> (round_robin_index + 1) % Len(weighted_instances)]

\* The sum of active_connections over the instances of a list.
RECURSIVE TotalActive(_)
TotalActive(insts) ==
    IF insts = <<>> THEN 0
                    ELSE ActiveConnections(Head(insts)) + TotalActive(Tail(insts))

\* Mutation: the hash is offset by the load of the listed instances.
IpHashSelect_UsesLoad(insts, client_ip) ==
    IF client_ip = ""
       THEN [instance |-> insts[1], index |-> round_robin_index]
       ELSE [instance |-> insts[((Md5Mod840(client_ip) + TotalActive(insts))
                                 % Len(insts)) + 1],
             index |-> round_robin_index]

\* _ip_hash_select
IpHashSelect(insts, client_ip) ==
    IF client_ip = ""
       THEN [instance |-> insts[1], index |-> round_robin_index]
       ELSE [instance |-> insts[(Md5Mod840(client_ip) % Len(insts)) + 1],
             index |-> round_robin_index]

\* _random_select: any instance of the list.
RandomSelect(insts) ==
    {[instance |-> insts[k], index |-> round_robin_index] : k \in 1..Len(insts)}

\* select_instance: the results it can give, each with the cursor it leaves.
SelectInstance(client_ip) ==
    LET healthy_instances == HealthyInstances
        none == {[instance |-> 0, index |-> round_robin_index]}
    IN  IF Len(weight) = 0 THEN none
        ELSE IF healthy_instances = <<>> THEN none
        ELSE CASE algorithm = ROUND_ROBIN ->
                     {RoundRobinSelect(healthy_instances)}
               [] algorithm = LEAST_CONNECTIONS ->
                     {LeastConnectionsSelect(healthy_instances)}
               [] algorithm = WEIGHTED_ROUND_ROBIN ->
                     {WeightedRoundRobinSelect(healthy_instances)}
               [] algorithm = IP_HASH ->
                     {IpHashSelect(healthy_instances, client_ip)}
               [] algorithm = RANDOM ->
                     RandomSelect(healthy_instances)

\* The number of selections that (weighted) round robin takes to go once
\* round a list.
CycleLength(insts) ==
    IF algorithm = WEIGHTED_ROUND_ROBIN
       THEN (IF TotalWeight(insts) = 0 THEN 1 ELSE TotalWeight(insts))
       ELSE Len(insts)

\* History of the cursor algorithms: the selections made in a row on the
\* eligible list since it last changed, begun anew when one round of the
\* list and one selection more are recorded.
RecordRecent(r) ==
    LET healthy_instances == HealthyInstances
    IN  IF algorithm \notin {ROUND_ROBIN, WEIGHTED_ROUND_ROBIN} \/ r.instance = 0
           THEN UNCHANGED <<recent, recent_from, first_window>>
        ELSE IF Len(recent) <= CycleLength(healthy_instances) /\ recent # <<>>
           THEN /\ recent' = Append(recent, r.instance)
                /\ UNCHANGED <<recent_from, first_window>>
           ELSE /\ recent' = <<r.instance>>
                /\ recent_from' = round_robin_index % CycleLength(healthy_instances)
                /\ first_window' = (first_window /\ recent = <<>>)

\* History of IP hash: one selection on the eligible list is kept, chosen
\* freely among those made since the list last changed.
RecordPinned(client_ip, r) ==
    \/ UNCHANGED pinned
    \/ /\ algorithm = IP_HASH
       /\ pinned = <<>>
       /\ r.instance # 0
       /\ pinned' = <<[ip |-> client_ip, instance |-> r.instance,
                       load |-> TotalActive(HealthyInstances)]>>

\* The histories end when the eligible list changes.
ForgetHistory ==
    /\ recent' = <<>>
    /\ recent_from' = 0
    /\ first_window' = (first_window /\ recent = <<>>)
    /\ pinned' = <<>>

\* The result of select_instance is with its caller until the next step.
ResultTaken ==
    /\ selected' = 0
    /\ last_ip' = ""
    /\ lb_event' = "other"

\* One call of select_instance.  Nothing in it suspends: the lock of the
\* cursor algorithms is free whenever it is asked for.
Select(client_ip) ==
    /\ \E r \in SelectInstance(client_ip) :
          /\ selected' = r.instance
          /\ round_robin_index' = r.index
          /\ RecordRecent(r)
          /\ RecordPinned(client_ip, r)
    /\ last_ip' = IF algorithm = IP_HASH THEN client_ip ELSE ""
    /\ lb_event' = "select"
    /\ UNCHANGED <<algorithm, health_check_enabled, weight, healthy,
                   connection_stats>>
    /\ LBFrame

\* record_request_start
RecordRequestStart(i) ==
    /\ TotalActive([k \in Instances |-> k]) < MaxInFlight
    /\ connection_stats' =
          [k \in DOMAIN connection_stats \cup {i} |->
              IF k = i
                 THEN [active_connections |-> ActiveConnections(i) + 1]
                 ELSE connection_stats[k]]
    /\ ResultTaken
    /\ UNCHANGED <<algorithm, health_check_enabled, weight, healthy,
                   round_robin_index,
                   recent, recent_from, first_window, pinned>>
    /\ LBFrame

\* record_request_end
RecordRequestEnd(i) ==
    /\ connection_stats' =
          IF i \notin DOMAIN connection_stats
             THEN connection_stats
             ELSE [connection_stats EXCEPT ![i] =
                      [active_connections |->
                          IF ActiveConnections(i) - 1 > 0
                             THEN ActiveConnections(i) - 1
                             ELSE 0]]
    /\ ResultTaken
    /\ UNCHANGED <<algorithm, health_check_enabled, weight, healthy,
                   round_robin_index,
                   recent, recent_from, first_window, pinned>>
    /\ LBFrame

\* health_check_instance: the probe's verdict is stored in instance.healthy
\* (False also when the probe raised).
HealthCheckInstance(i, is_healthy) ==
    /\ healthy' = [healthy EXCEPT ![i] = is_healthy]
    /\ ResultTaken
    /\ IF health_check_enabled /\ healthy[i] # is_healthy
          THEN ForgetHistory
          ELSE UNCHANGED <<recent, recent_from, first_window, pinned>>
    /\ UNCHANGED <<algorithm, health_check_enabled, weight, round_robin_index,
                   connection_stats>>
    /\ LBFrame

NextLB ==
    \/ \E client_ip \in ClientIPs : Select(client_ip)
    \/ \E i \in Instances : RecordRequestStart(i)
    \/ \E i \in Instances : RecordRequestEnd(i)
    \/ \E i \in Instances : \E is_healthy \in BOOLEAN : HealthCheckInstance(i, is_healthy)

InitLB == LBInit /\ CBIdle /\ GatewayIdle

SpecLB == InitLB /\ [][NextLB]_vars

\* Weighted round robin reads the cursor, the list and the weights, and no
\* connection statistics: its specification leaves the request records out.
NextWRR ==
    \/ \E client_ip \in ClientIPs : Select(client_ip)
    \/ \E i \in Instances : \E is_healthy \in BOOLEAN : HealthCheckInstance(i, is_healthy)

InitWRR == WRRInit /\ CBIdle /\ GatewayIdle

SpecWRR == InitWRR /\ [][NextWRR]_vars

(***************************************************************************)
(* The words of the claims about the balancer.                             *)
(***************************************************************************)
\* The instances that the filter of select_instance lets through.
Eligible == {i \in Instances : ~health_check_enabled \/ healthy[i]}

\* How often instance i is among recent[j], ..., recent[j + n - 1].
TimesIn(i, j, n) == Cardinality({k \in j..(j + n - 1) : recent[k] = i})

\* The sum of the weights of the first k instances of a list.
WeightBefore(insts, k) == TotalWeight(SubSeq(insts, 1, k))

\* The instance at place p (from 1) of the list that repeats each instance
\* of insts as often as its weight says.
VirtualAt(insts, p) ==
    insts[CHOOSE k \in 1..Len(insts) :
             WeightBefore(insts, k - 1) < p /\ p <= WeightBefore(insts, k)]

(***************************************************************************)
(* C6. With health checking enabled select_instance returns, under every   *)
(* algorithm, only an instance whose healthy flag is true when it is       *)
(* selected, and None exactly when the list holds no healthy instance;     *)
(* with health checking disabled no instance is filtered out: None is      *)
(* returned only for the empty list, and round robin goes round all        *)
(* instances.                                                              *)
(***************************************************************************)
C6_SelectsOnlyEligible ==
    /\ lb_event = "select" =>
          /\ selected \in Instances \cup {0}
          /\ (health_check_enabled /\ selected # 0) => healthy[selected]
          /\ health_check_enabled =>
                ((selected = 0) <=> (\A i \in Instances : ~healthy[i]))
          /\ ~health_check_enabled => ((selected = 0) <=> (Instances = {}))
    /\ (/\ algorithm = ROUND_ROBIN
        /\ ~health_check_enabled
        /\ Len(recent) >= Len(weight)) =>
          \A i \in Instances : \E k \in 1..Len(recent) : recent[k] = i

\* A healthy instance is selected that stands behind an unhealthy one.
C6_Witness ==
    /\ lb_event = "select"
    /\ health_check_enabled
    /\ selected = 3
    /\ ~healthy[1]
    /\ healthy[2]

(***************************************************************************)
(* C7. Round-robin selections made in a row on an unchanged list of N      *)
(* eligible instances go through the list in cyclic order, from            *)
(* instance[0] when the balancer is new, so N selections in a row give     *)
(* each instance exactly one.                                              *)
(***************************************************************************)
C7_RoundRobinCycles ==
    (algorithm = ROUND_ROBIN /\ recent # <<>>) =>
       LET insts == HealthyInstances
           N == Len(insts)
       IN  /\ \A k \in 1..Len(recent) :
                 recent[k] = insts[((recent_from + k - 1) % N) + 1]
           /\ first_window => recent_from = 0
           /\ \A j \in 1..(Len(recent) - N + 1) :
                 \A i \in Eligible : TimesIn(i, j, N) = 1

\* The first four selections of a new balancer on three instances.
C7_Witness ==
    /\ algorithm = ROUND_ROBIN
    /\ first_window
    /\ HealthyInstances = <<1, 2, 3>>
    /\ recent = <<1, 2, 3, 1>>

(***************************************************************************)
(* C8. Least-connections selection returns an eligible instance whose      *)
(* active_connections is least among the eligible ones, and the first such *)
(* instance in list order.                                                 *)
(***************************************************************************)
C8_LeastConnectionsMinimal ==
    (lb_event = "select" /\ algorithm = LEAST_CONNECTIONS /\ selected # 0) =>
       /\ selected \in Eligible
       /\ \A j \in Eligible :
             /\ ActiveConnections(selected) <= ActiveConnections(j)
             /\ j < selected => ActiveConnections(j) > ActiveConnections(selected)

\* The first instance is busy; of the two idle ones the earlier is selected.
C8_Witness ==
    /\ lb_event = "select"
    /\ algorithm = LEAST_CONNECTIONS
    /\ Eligible = {1, 2, 3}
    /\ ActiveConnections(1) = 1
    /\ ActiveConnections(2) = 0
    /\ ActiveConnections(3) = 0
    /\ selected = 2

(***************************************************************************)
(* The cycle of weighted round robin: selections made in a row on an       *)
(* unchanged eligible list of total weight W > 0 go through the list that  *)
(* repeats each instance as often as its weight says, so W selections in a *)
(* row give instance i exactly weight[i].                                  *)
(***************************************************************************)
WeightedCycle ==
    (algorithm = WEIGHTED_ROUND_ROBIN /\ recent # <<>>
        /\ TotalWeight(HealthyInstances) > 0) =>
       LET insts == HealthyInstances
           W == TotalWeight(insts)
       IN  /\ \A k \in 1..Len(recent) :
                 recent[k] = VirtualAt(insts, ((recent_from + k - 1) % W) + 1)
           /\ first_window => recent_from = 0
           /\ \A j \in 1..(Len(recent) - W + 1) :
                 \A i \in Eligible : TimesIn(i, j, W) = weight[i]

(***************************************************************************)
(* C9 as stated. Weighted round robin goes through the list that repeats   *)
(* each instance as often as its weight says, and an instance of weight 0  *)
(* is never selected.                                                      *)
(***************************************************************************)
C9_WeightedCycleNoZeroWeight ==
    /\ WeightedCycle
    /\ (lb_event = "select" /\ algorithm = WEIGHTED_ROUND_ROBIN /\ selected # 0) =>
          weight[selected] > 0

(***************************************************************************)
(* C9 as amended. Weighted round robin goes through the list that repeats  *)
(* each instance as often as its weight says; an instance of weight 0 is   *)
(* never selected while an eligible instance has a weight above 0, and     *)
(* when every eligible instance has weight 0 the first eligible instance   *)
(* is selected every time.                                                 *)
(***************************************************************************)
C9_WeightedCycle ==
    /\ WeightedCycle
    /\ (lb_event = "select" /\ algorithm = WEIGHTED_ROUND_ROBIN /\ selected # 0) =>
          IF TotalWeight(HealthyInstances) > 0
             THEN weight[selected] > 0
             ELSE selected = HealthyInstances[1]

\* Weights [1, 2]: the first four selections of a new balancer.
C9_Witness ==
    /\ algorithm = WEIGHTED_ROUND_ROBIN
    /\ weight = <<1, 2>>
    /\ first_window
    /\ HealthyInstances = <<1, 2>>
    /\ recent = <<1, 2, 2, 1>>

(***************************************************************************)
(* C10. IP-hash selection is deterministic: on an unchanged eligible list  *)
(* two selections with the same client IP return the same instance,        *)
(* whatever selections and connection records happen between them.         *)
(***************************************************************************)
C10_IpHashDeterministic ==
    (/\ lb_event = "select"
     /\ algorithm = IP_HASH
     /\ pinned # <<>>
     /\ pinned[1].ip = last_ip) =>
       selected = pinned[1].instance

\* The same IP selects the third of three instances again, after a request
\* to a listed instance has begun.
C10_Witness ==
    /\ lb_event = "select"
    /\ algorithm = IP_HASH
    /\ pinned # <<>>
    /\ pinned[1].ip = "10.0.0.2"
    /\ last_ip = "10.0.0.2"
    /\ Len(HealthyInstances) = 3
    /\ selected = 3
    /\ pinned[1].load # TotalActive(HealthyInstances)

(***************************************************************************)
(* RateLimitingMiddleware                                                  *)
(***************************************************************************)
\* The sliding window of the rpm limit and the window of the burst limit,
\* in seconds.
RateWindow == 60
BurstWindow == 1

\* What the other components' variables do during a step of the limiter.
RLFrame == UNCHANGED <<cbVars, lbVars, ssVars, rtVars, gwVars, bgVars>>

\* A path is the sequence of its segments and of the "/" between them.
Slash == "/"

\* The requests of the model: their client address, their user_id on
\* request.state ("" when the attribute is not set) and their path.
NoUser == ""
ServicePath == <<Slash, "api", Slash, "v1", Slash, "auth", Slash, "login">>
PlainPath == <<Slash, "health">>
RLRequests ==
    {[client_ip |-> "192.168.1.100", user_id |-> "u1", path |-> ServicePath],
     [client_ip |-> "10.0.0.2", user_id |-> NoUser, path |-> ServicePath]}

\* The times at which requests arrive and checks are made: the start of the
\* clock, one second later, and one second before, on and one second after
\* the end of the first rate window.
Instants == {0, BurstWindow, RateWindow - 1, RateWindow, RateWindow + 1}

\* path.strip("/")
RECURSIVE StripSlashes(_)
StripSlashes(path) ==
    IF path = <<>> THEN path
    ELSE IF Head(path) = Slash THEN StripSlashes(Tail(path))
    ELSE IF path[Len(path)] = Slash
            THEN StripSlashes(SubSeq(path, 1, Len(path) - 1))
    ELSE path

\* path.split("/"): the parts between the slashes, each the sequence of its
\* segments, the empty part being <<>>.
RECURSIVE SplitSlashes(_)
SplitSlashes(path) ==
    IF \A i \in 1..Len(path) : path[i] # Slash
       THEN <<path>>
       ELSE LET i == CHOOSE j \in 1..Len(path) :
                        /\ path[j] = Slash
                        /\ \A h \in 1..(j - 1) : path[h] # Slash
            IN  <<SubSeq(path, 1, i - 1)>>
                \o SplitSlashes(SubSeq(path, i + 1, Len(path)))

\* _extract_service_name: parts[2] of "api/v1/<name>/...", <<>> for None.
ExtractServiceName(path) ==
    LET parts == SplitSlashes(StripSlashes(path))
    IN  IF Len(parts) >= 3 /\ parts[1] = <<"api">> /\ parts[2] = <<"v1">>
           THEN parts[3]
           ELSE <<>>

\* _generate_rate_limit_keys: the keys of the dict, in insertion order.  All
\* of them carry default_rpm and default_burst.
GenerateRateLimitKeys(client_ip, user_id, path) ==
    (IF by_ip THEN <<[type |-> "ip", id |-> <<client_ip>>]>> ELSE <<>>)
    \o (IF by_user /\ user_id # NoUser
           THEN <<[type |-> "user", id |-> <<user_id>>]>> ELSE <<>>)
    \o (IF by_service /\ ExtractServiceName(path) # <<>>
           THEN <<[type |-> "service", id |-> ExtractServiceName(path)]>>
           ELSE <<>>)

\* self._rate_limits[key]["requests"], after the bucket was created.
BucketOf(limits, key) == IF key \in DOMAIN limits THEN limits[key] ELSE <<>>

\* limits with the bucket of key set to requests.
WithBucket(limits, key, bucket) ==
    [k \in DOMAIN limits \cup {key} |-> IF k = key THEN bucket ELSE limits[k]]

\* Mutation: the window of the rpm limit is one second short.
PruneRequests_ShortWindow(bucket) ==
    SelectSeq(bucket, LAMBDA req_time : current_time - req_time < RateWindow - 1)

\* The list comprehension that drops the requests of 60 seconds ago and older.
PruneRequests(bucket) ==
    SelectSeq(bucket, LAMBDA req_time : current_time - req_time < RateWindow)

\* recent_requests: the requests of the last second.
RecentRequests(bucket) ==
    SelectSeq(bucket, LAMBDA req_time : current_time - req_time < BurstWindow)

\* Mutation: the rpm limit lets one request more through.
IsRateLimited_RpmOffByOne(key, limits) ==
    LET bucket == PruneRequests(BucketOf(limits, key))
    IN  [limits |-> WithBucket(limits, key, bucket),
         limited |-> \/ Len(bucket) > default_rpm
                     \/ Len(RecentRequests(bucket)) >= default_burst]

\* Mutation: the burst limit is not checked.
IsRateLimited_NoBurst(key, limits) ==
    LET bucket == PruneRequests(BucketOf(limits, key))
    IN  [limits |-> WithBucket(limits, key, bucket),
         limited |-> Len(bucket) >= default_rpm]

\* _is_rate_limited: the bucket is created and pruned, then the rpm limit and
\* the burst limit are checked.  Gives the verdict and the buckets it leaves.
IsRateLimited(key, limits) ==
    LET bucket == PruneRequests(BucketOf(limits, key))
    IN  [limits |-> WithBucket(limits, key, bucket),
         limited |-> \/ Len(bucket) >= default_rpm
                     \/ Len(RecentRequests(bucket)) >= default_burst]

\* _record_request: the current time is appended to the bucket.
RecordRequest(key, limits) ==
    WithBucket(limits, key, Append(BucketOf(limits, key), current_time))

\* The first loop of dispatch, from the k-th key on: it returns at the first
\* key that is limited.
RECURSIVE CheckFrom(_, _, _)
CheckFrom(keys, k, limits) ==
    IF k > Len(keys)
       THEN [limited |-> FALSE, key |-> NoKey, limits |-> limits]
       ELSE LET c == IsRateLimited(keys[k], limits)
            IN  IF c.limited
                   THEN [limited |-> TRUE, key |-> keys[k], limits |-> c.limits]
                   ELSE CheckFrom(keys, k + 1, c.limits)

\* The second loop of dispatch, from the k-th key on.
RECURSIVE RecordFrom(_, _, _)
RecordFrom(keys, k, limits) ==
    IF k > Len(keys)
       THEN limits
       ELSE RecordFrom(keys, k + 1, RecordRequest(keys[k], limits))

\* Mutation: each key is recorded as soon as its own check has passed.
RECURSIVE DispatchLimits_RecordAsChecked(_, _)
DispatchLimits_RecordAsChecked(keys, limits) ==
    IF keys = <<>>
       THEN [limited |-> FALSE, key |-> NoKey, limits |-> limits]
       ELSE LET c == IsRateLimited(Head(keys), limits)
            IN  IF c.limited
                   THEN [limited |-> TRUE, key |-> Head(keys), limits |-> c.limits]
                   ELSE DispatchLimits_RecordAsChecked(
                            Tail(keys), RecordRequest(Head(keys), c.limits))

\* The two loops of dispatch: whether the request is rejected, by which key,
\* and the buckets after it.  No step of them suspends: the lock is free
\* whenever it is asked for, so no other request runs between the check of
\* a request and its recording.
DispatchLimits(keys, limits) ==
    LET c == CheckFrom(keys, 1, limits)
    IN  IF c.limited
           THEN c
           ELSE [limited |-> FALSE, key |-> NoKey,
                 limits |-> RecordFrom(keys, 1, c.limits)]

\* History: the current time is noted on every key of an admitted request.
RECURSIVE NoteAdmitted(_, _)
NoteAdmitted(keys, history) ==
    IF keys = <<>>
       THEN history
       ELSE NoteAdmitted(Tail(keys),
               [k \in DOMAIN history \cup {Head(keys)} |->
                   IF k = Head(keys)
                      THEN Append(IF k \in DOMAIN history THEN history[k] ELSE <<>>,
                                  current_time)
                      ELSE history[k]])

\* History: the key that rejected with its rpm window full.
NoteLimited(d) ==
    IF d.limited /\ Len(d.limits[d.key]) >= default_rpm
       THEN d.key
       ELSE last_limited

\* dispatch, up to call_next or to the 429 response.
Dispatch(client_ip, user_id, path) ==
    /\ IF ~rl_enabled
          THEN /\ rl_keys' = <<>>
               /\ rl_response' = "call_next"
               /\ rl_key' = NoKey
               /\ UNCHANGED <<rate_limits, admitted, last_limited>>
          ELSE LET keys == GenerateRateLimitKeys(client_ip, user_id, path)
                   d == DispatchLimits(keys, rate_limits)
               IN  /\ rl_keys' = keys
                   /\ rate_limits' = d.limits
                   /\ rl_response' = IF d.limited THEN "429" ELSE "call_next"
                   /\ rl_key' = d.key
                   /\ admitted' = IF d.limited THEN admitted
                                  ELSE NoteAdmitted(keys, admitted)
                   /\ last_limited' = NoteLimited(d)
    /\ UNCHANGED <<rl_enabled, by_ip, by_user, by_service, default_rpm,
                   default_burst, current_time>>
    /\ RLFrame

\* History: the admissions that are less than a rate window before time t.
StillInWindow(history, t) ==
    [k \in DOMAIN history |->
        SelectSeq(history[k], LAMBDA req_time : req_time > t - RateWindow)]

\* Time passes, up to a later instant.
RLTick ==
    /\ \E t \in Instants :
          /\ t > current_time
          /\ current_time' = t
          /\ admitted' = StillInWindow(admitted, t)
    /\ rl_keys' = <<>>
    /\ rl_response' = "none"
    /\ rl_key' = NoKey
    /\ UNCHANGED <<rl_enabled, by_ip, by_user, by_service, default_rpm,
                   default_burst, rate_limits, last_limited>>
    /\ RLFrame

\* RateLimitingMiddleware.__init__ with a RateLimitConfig of the caller's
\* choice.
RLInit ==
    /\ rl_enabled \in BOOLEAN
    /\ by_ip \in BOOLEAN
    /\ by_user \in BOOLEAN
    /\ by_service \in BOOLEAN
    /\ default_rpm \in 1..MaxLimit
    /\ default_burst \in 1..MaxLimit
    /\ rate_limits = <<>>
    /\ current_time = 0
    /\ rl_keys = <<>>
    /\ rl_response = "none"
    /\ rl_key = NoKey
    /\ admitted = <<>>
    /\ last_limited = NoKey

NextRL ==
    \/ \E r \in RLRequests : Dispatch(r.client_ip, r.user_id, r.path)
    \/ RLTick

InitRL == RLInit /\ CBIdle /\ LBIdle /\ SSIdle /\ RTIdle /\ GWIdle /\ BGIdle

SpecRL == InitRL /\ [][NextRL]_vars


(***************************************************************************)
(* The words of the claims about the rate limiter.                         *)
(***************************************************************************)
\* A step that is a dispatch of the enabled limiter.
RLDispatchStep == rl_enabled /\ rl_response' # "none"

\* The keys of the request of that dispatch.
RLKeysOfStep == {rl_keys'[k] : k \in 1..Len(rl_keys')}

\* How many timestamps the bucket of key holds that are less than window
\* seconds old when the request arrives.
YoungerThan(key, window) ==
    LET bucket == IF key \in DOMAIN rate_limits THEN rate_limits[key] ELSE <<>>
    IN  Cardinality({i \in 1..Len(bucket) : current_time - bucket[i] < window})

\* How many requests were admitted on key in the window seconds up to T,
\* as the history has them after the step.
AdmittedWithin(key, window, T) ==
    Cardinality({i \in 1..Len(admitted'[key]) :
                    admitted'[key][i] > T - window /\ admitted'[key][i] <= T})

\* C11: a request that arrives when the bucket of one of its keys holds rpm
\* timestamps younger than 60 s is rejected with 429; once timestamps of the
\* bucket are 60 s old or older they no longer count, and the request is
\* admitted again as soon as every one of its keys holds fewer than rpm
\* timestamps younger than 60 s (and fewer than burst of the last second).
C11_RpmWindow ==
    [][RLDispatchStep =>
          /\ (\E key \in RLKeysOfStep : YoungerThan(key, RateWindow) >= default_rpm)
                => rl_response' = "429"
          /\ (\A key \in RLKeysOfStep :
                 /\ YoungerThan(key, RateWindow) < default_rpm
                 /\ YoungerThan(key, BurstWindow) < default_burst)
                => /\ rl_response' = "call_next"
                   /\ \A key \in RLKeysOfStep :
                         Len(rate_limits'[key]) =
                            YoungerThan(key, RateWindow) + 1]_vars

\* A request is admitted on the key whose rpm check had rejected one before.
C11_Witness ==
    /\ rl_response = "call_next"
    /\ \E k \in 1..Len(rl_keys) : rl_keys[k] = last_limited

\* C12: a request that arrives when the bucket of one of its keys holds
\* burst timestamps of the last second is rejected with 429, whatever the
\* 60 s window holds; so no key has more than burst admissions in a second.
C12_BurstLimit ==
    [][/\ RLDispatchStep =>
             ((\E key \in RLKeysOfStep :
                  YoungerThan(key, BurstWindow) >= default_burst)
                 => rl_response' = "429")
       /\ \A key \in DOMAIN admitted' : \A T \in Instants :
             AdmittedWithin(key, BurstWindow, T) <= default_burst]_vars

\* A request is rejected by the burst check of a key whose 60 s window holds
\* fewer than rpm timestamps.
C12_Witness ==
    /\ rl_response = "429"
    /\ Len(rate_limits[rl_key]) < default_rpm
    /\ Cardinality({i \in 1..Len(rate_limits[rl_key]) :
                       current_time - rate_limits[rl_key][i] < BurstWindow})
          >= default_burst

\* C14: whatever the order in which requests are dispatched, no key has more
\* than rpm admitted requests in any window of 60 s.
C14_WindowNeverExceedsRpm ==
    \A key \in DOMAIN admitted : \A T \in Instants :
       Cardinality({i \in 1..Len(admitted[key]) :
                       /\ admitted[key][i] > T - RateWindow
                       /\ admitted[key][i] <= T}) <= default_rpm

\* The key that the two clients share has taken its last free slot and has
\* rejected the next request.
C14_Witness ==
    /\ rl_response = "429"
    /\ rl_key.type = "service"
    /\ rl_key \in DOMAIN admitted
    /\ Len(admitted[rl_key]) = default_rpm
    /\ \E i, j \in 1..Len(admitted[rl_key]) :
          i # j /\ admitted[rl_key][i] = admitted[rl_key][j]

(***************************************************************************)
(* StickySessionManager                                                    *)
(***************************************************************************)
\* What the other components' variables do during a step of the manager.
SSFrame == UNCHANGED <<cbVars, lbVars, rlState, rtVars, gwVars, bgVars>>

\* The session cookies of the model, and the instance lists of the routes
\* that lookups are made for.  An instance is its key, "host:port".
SessionIds == {"s1", "s2"}
StickyInstances == {1, 2}
StickyInstanceLists == {<<1>>, <<2>>, <<1, 2>>}

\* The session map without the record of session_id.
WithoutSession(sess, session_id) ==
    [k \in DOMAIN sess \ {session_id} |-> sess[k]]

\* Mutation: a session is expired from the timeout on, not after it.
IsExpired_AtTimeout(session_data) ==
    current_time - session_data.created_at >= session_timeout

\* time.time() - session_data['created_at'] > self.session_timeout
IsExpired(session_data) ==
    current_time - session_data.created_at > session_timeout

\* Mutation: a lookup that resolves starts the session's time again.
GetSessionInstance_Refreshes(session_id, instances, sess) ==
    IF session_id \notin DOMAIN sess
       THEN [instance |-> 0, sessions |-> sess]
    ELSE IF IsExpired(sess[session_id])
       THEN [instance |-> 0, sessions |-> WithoutSession(sess, session_id)]
    ELSE IF \E k \in 1..Len(instances) :
                instances[k] = sess[session_id].instance_key
       THEN [instance |-> sess[session_id].instance_key,
             sessions |-> [sess EXCEPT ![session_id].created_at = current_time]]
    ELSE [instance |-> 0, sessions |-> WithoutSession(sess, session_id)]

\* get_session_instance: what it returns, 0 for None, and the session map
\* that it leaves.
GetSessionInstance(session_id, instances, sess) ==
    IF session_id \notin DOMAIN sess
       THEN [instance |-> 0, sessions |-> sess]
    ELSE IF IsExpired(sess[session_id])
       THEN [instance |-> 0, sessions |-> WithoutSession(sess, session_id)]
    ELSE IF \E k \in 1..Len(instances) :
                instances[k] = sess[session_id].instance_key
       THEN [instance |-> sess[session_id].instance_key, sessions |-> sess]
    ELSE [instance |-> 0, sessions |-> WithoutSession(sess, session_id)]

\* create_session: the session map that it leaves.
CreateSession(session_id, instance, sess) ==
    [k \in DOMAIN sess \cup {session_id} |->
        IF k = session_id
           THEN [instance_key |-> instance, created_at |-> current_time]
           ELSE sess[k]]

\* cleanup_expired_sessions: the session map that it leaves.
CleanupExpiredSessions(sess) ==
    [k \in {h \in DOMAIN sess : ~IsExpired(sess[h])} |-> sess[k]]

\* History: a lookup of a session with its instance missing from the list.
NoteLookup(session_id, instances) ==
    IF /\ session_id \in DOMAIN created
       /\ \A k \in 1..Len(instances) : instances[k] # created[session_id].instance
       THEN [created EXCEPT ![session_id].lost = TRUE]
       ELSE created

\* One call of get_session_instance.
SSGet(session_id, instances) ==
    /\ LET r == GetSessionInstance(session_id, instances, sessions)
       IN  /\ ss_result' = r.instance
           /\ sessions' = r.sessions
    /\ ss_session_id' = session_id
    /\ ss_instances' = instances
    /\ ss_event' = "get"
    /\ created' = NoteLookup(session_id, instances)
    /\ UNCHANGED <<session_timeout, current_time>>
    /\ SSFrame

\* The result of a lookup is with its caller until the next step.
SSResultTaken ==
    /\ ss_session_id' = ""
    /\ ss_instances' = <<>>
    /\ ss_result' = 0
    /\ ss_event' = "other"

\* One call of create_session.
SSCreate(session_id, instance) ==
    /\ sessions' = CreateSession(session_id, instance, sessions)
    /\ created' = [k \in DOMAIN created \cup {session_id} |->
                      IF k = session_id
                         THEN [instance |-> instance, at |-> current_time,
                               lost |-> FALSE]
                         ELSE created[k]]
    /\ SSResultTaken
    /\ UNCHANGED <<session_timeout, current_time>>
    /\ SSFrame

\* One call of cleanup_expired_sessions.
SSCleanup ==
    /\ sessions' = CleanupExpiredSessions(sessions)
    /\ SSResultTaken
    /\ UNCHANGED <<session_timeout, current_time, created>>
    /\ SSFrame

\* A second passes.
SSTick ==
    /\ current_time < MaxSessionTime
    /\ current_time' = current_time + 1
    /\ SSResultTaken
    /\ UNCHANGED <<session_timeout, sessions, created>>
    /\ SSFrame

\* StickySessionManager.__init__ with a timeout of the caller's choice.
SSInit ==
    /\ session_timeout \in 1..MaxSessionTimeout
    /\ sessions = <<>>
    /\ ss_session_id = ""
    /\ ss_instances = <<>>
    /\ ss_result = 0
    /\ ss_event = "none"
    /\ created = <<>>

NextSS ==
    \/ \E session_id \in SessionIds : \E instances \in StickyInstanceLists :
          SSGet(session_id, instances)
    \/ \E session_id \in SessionIds : \E instance \in StickyInstances :
          SSCreate(session_id, instance)
    \/ SSCleanup
    \/ SSTick

InitSS == SSInit /\ CBIdle /\ LBIdle /\ RLIdle /\ RTIdle /\ GWIdle /\ BGIdle

SpecSS == InitSS /\ [][NextSS]_vars

(***************************************************************************)
(* The words of the claim about sticky sessions.                           *)
(***************************************************************************)
\* A step that is a lookup of a session that was created before it.
SSLookupStep == ss_event' = "get" /\ ss_session_id' \in DOMAIN created

\* The latest creation of the session that the step looks up.
SSCreation == created[ss_session_id']

\* Its instance is in the list that the step is given.
SSInstancePresent ==
    \E k \in 1..Len(ss_instances') : ss_instances'[k] = SSCreation.instance

\* C15 as the claim has it: a lookup of a session created for instance A,
\* made with A in the list, returns A while no more than the timeout has
\* passed since the creation; a lookup made later returns None.
C15_ResolvesUntilExpiry ==
    [][SSLookupStep =>
          /\ (SSInstancePresent /\ current_time - SSCreation.at <= session_timeout)
                => ss_result' = SSCreation.instance
          /\ current_time - SSCreation.at > session_timeout
                => ss_result' = 0]_vars

\* C15, amended: the same, for a session of which no lookup was made with A
\* missing from the list since it was created (such a lookup deletes it).
C15_ResolvesUntilExpiryOrAbsence ==
    [][SSLookupStep =>
          /\ (/\ SSInstancePresent
              /\ ~SSCreation.lost
              /\ current_time - SSCreation.at <= session_timeout)
                => ss_result' = SSCreation.instance
          /\ current_time - SSCreation.at > session_timeout
                => ss_result' = 0]_vars

\* A session resolves to its instance exactly one timeout after its
\* creation, its instance being the second of the list and another session
\* being pinned elsewhere.
C15_Witness ==
    /\ ss_event = "get"
    /\ ss_session_id \in DOMAIN created
    /\ ss_result = created[ss_session_id].instance
    /\ ss_result # 0
    /\ current_time - created[ss_session_id].at = session_timeout
    /\ \E other \in DOMAIN sessions :
          /\ other # ss_session_id
          /\ sessions[other].instance_key # ss_result

\* A step that is a lookup of a session that is in the session map.
SSStoredLookupStep == ss_event' = "get" /\ ss_session_id' \in DOMAIN sessions

\* The record that the step finds.
SSRecord == sessions[ss_session_id']

\* C35: a lookup that finds the session older than the timeout, or its
\* instance missing from the list it is given, deletes the record and
\* returns None; a lookup that resolves leaves the session map as it was,
\* created_at included.
C35_FailedLookupDeletesResolvedKeeps ==
    [][SSStoredLookupStep =>
          /\ (\/ current_time - SSRecord.created_at > session_timeout
              \/ \A k \in 1..Len(ss_instances') :
                    ss_instances'[k] # SSRecord.instance_key)
                => /\ ss_result' = 0
                   /\ ss_session_id' \notin DOMAIN sessions'
                   /\ \A k \in DOMAIN sessions \ {ss_session_id'} :
                         k \in DOMAIN sessions' /\ sessions'[k] = sessions[k]
          /\ ss_result' # 0 => sessions' = sessions]_vars

\* A lookup resolved a session some time after its creation and left its
\* created_at alone; another session that was created is in the map no more.
C35_Witness ==
    /\ ss_event = "get"
    /\ ss_result # 0
    /\ ss_session_id \in DOMAIN sessions
    /\ sessions[ss_session_id].created_at < current_time
    /\ \E other \in DOMAIN created : other \notin DOMAIN sessions

(***************************************************************************)
(* APIGateway: route matching                                              *)
(***************************************************************************)
\* What the other components' variables do during a step of the router.
RTFrame == UNCHANGED <<cbVars, lbVars, rlVars, ssVars, gwVars, bgVars>>

\* A path or a pattern is the sequence of its characters.  The patterns that
\* routes are registered with, the services behind them, and the paths that
\* are looked up: the handler looks up "/" followed by the path it is given.
Star == "*"
RoutePatterns ==
    {<<Slash, "a", Slash, Star>>, <<Slash, "a", Star>>, <<Slash, "a">>,
     <<Slash, "a", Slash, "a">>, <<Slash, Star>>, <<Star>>}
RouteServices == {"auth", "users"}
RoutePaths ==
    {path \in UNION {[1..n -> {Slash, "a"}] : n \in 1..MaxPathLen} :
        path[1] = Slash}

\* str.endswith
EndsWith(str, suffix) ==
    /\ Len(suffix) <= Len(str)
    /\ SubSeq(str, Len(str) - Len(suffix) + 1, Len(str)) = suffix

\* str.startswith
StartsWith(str, prefix) ==
    /\ Len(prefix) <= Len(str)
    /\ SubSeq(str, 1, Len(prefix)) = prefix

\* Mutation: only the star is cut off a pattern that ends in "/*".
PathMatches_KeepsSlash(request_path, route_path) ==
    IF EndsWith(route_path, <<Star>>)
       THEN StartsWith(request_path, SubSeq(route_path, 1, Len(route_path) - 1))
       ELSE request_path = route_path

\* _path_matches
PathMatches(request_path, route_path) ==
    IF EndsWith(route_path, <<Slash, Star>>)
       THEN StartsWith(request_path, SubSeq(route_path, 1, Len(route_path) - 2))
    ELSE IF EndsWith(route_path, <<Star>>)
       THEN StartsWith(request_path, SubSeq(route_path, 1, Len(route_path) - 1))
    ELSE request_path = route_path

\* The loop of _find_matching_route over self.routes.items(), from the k-th
\* item on: the first route whose pattern matches, or NoRoute.
RECURSIVE FindFrom(_, _)
FindFrom(path, k) ==
    IF k > Len(routes) THEN NoRoute
    ELSE IF PathMatches(path, routes[k].path) THEN routes[k]
    ELSE FindFrom(path, k + 1)

\* _find_matching_route
FindMatchingRoute(path) == FindFrom(path, 1)

\* The result of a lookup is with its caller until the next step.
RTResultTaken ==
    /\ rt_path' = <<>>
    /\ rt_result' = NoRoute
    /\ rt_status' = 0

\* add_route, and the loop of __init__ over config.routes: a dict assignment,
\* which keeps the place of a key that is there already.
AddRoute(path, service_name) ==
    /\ \/ \E k \in 1..Len(routes) : routes[k].path = path
       \/ Len(routes) < MaxRoutes
    /\ routes' =
          IF \E k \in 1..Len(routes) : routes[k].path = path
             THEN [k \in 1..Len(routes) |->
                     IF routes[k].path = path
                        THEN [path |-> path, service_name |-> service_name]
                        ELSE routes[k]]
             ELSE Append(routes, [path |-> path, service_name |-> service_name])
    /\ RTResultTaken
    /\ RTFrame

\* remove_route
RemoveRoute(path) ==
    /\ routes' = SelectSeq(routes, LAMBDA route : route.path # path)
    /\ RTResultTaken
    /\ RTFrame

\* The first lines of _handle_proxy_request: the route of the path, and 404
\* when there is none.
FindRoute(path) ==
    /\ rt_path' = path
    /\ rt_result' = FindMatchingRoute(path)
    /\ rt_status' = IF FindMatchingRoute(path) = NoRoute THEN 404 ELSE 0
    /\ UNCHANGED routes
    /\ RTFrame

\* APIGateway.__init__ before the loop over config.routes.
RTInit ==
    /\ routes = <<>>
    /\ rt_path = <<>>
    /\ rt_result = NoRoute
    /\ rt_status = 0

NextRT ==
    \/ \E path \in RoutePatterns : \E service_name \in RouteServices :
          AddRoute(path, service_name)
    \/ \E path \in RoutePatterns : RemoveRoute(path)
    \/ \E path \in RoutePaths : FindRoute(path)

InitRT == RTInit /\ CBIdle /\ LBIdle /\ RLIdle /\ SSIdle /\ GWIdle /\ BGIdle

SpecRT == InitRT /\ [][NextRT]_vars

(***************************************************************************)
(* The words of the claim about route matching.                            *)
(***************************************************************************)
\* The pattern without its last n characters.
CutOff(pattern, n) == [i \in 1..(Len(pattern) - n) |-> pattern[i]]

\* The path starts with the characters of prefix.
HasPrefix(path, prefix) ==
    /\ Len(path) >= Len(prefix)
    /\ \A i \in 1..Len(prefix) : path[i] = prefix[i]

\* What the claim has a pattern match.
ClaimedMatch(path, pattern) ==
    LET n == Len(pattern)
    IN  IF n >= 2 /\ pattern[n - 1] = Slash /\ pattern[n] = Star
           THEN HasPrefix(path, CutOff(pattern, 2))
        ELSE IF n >= 1 /\ pattern[n] = Star
           THEN HasPrefix(path, CutOff(pattern, 1))
        ELSE path = pattern

\* C16: a lookup returns the first route, in insertion order, whose pattern
\* matches the path as the claim has it, and 404 when no pattern matches.
C16_FirstMatchingRoute ==
    rt_path # <<>> =>
       LET matching == {k \in 1..Len(routes) : ClaimedMatch(rt_path, routes[k].path)}
       IN  IF matching = {}
              THEN rt_result = NoRoute /\ rt_status = 404
              ELSE /\ rt_result = routes[CHOOSE k \in matching :
                                            \A h \in matching : k <= h]
                   /\ rt_status = 0

\* A path that two patterns match, the first by its "/*", is given the
\* first route.
C16_Witness ==
    /\ rt_path # <<>>
    /\ Len(routes) >= 2
    /\ rt_result = routes[1]
    /\ routes[1].path = <<Slash, "a", Slash, Star>>
    /\ rt_path # <<Slash, "a">>
    /\ ClaimedMatch(rt_path, routes[2].path)
    /\ routes[2].service_name # routes[1].service_name

(***************************************************************************)
(* APIGateway: the way of a request through the rate limiter, the handler  *)
(* of the catch-all route and the upstream call                            *)
(***************************************************************************)
\* The variables of the other components that no step of a request writes.
lbRest == <<algorithm, health_check_enabled, weight, healthy, selected, last_ip,
            lb_event, recent, recent_from, first_window, pinned>>
rlRest == <<rl_enabled, by_ip, by_user, by_service, default_rpm, default_burst,
            current_time, rl_keys, rl_response, rl_key, admitted, last_limited>>
ssRest == <<session_timeout, ss_session_id, ss_instances, ss_result, ss_event,
            created>>
GWFrame ==
    UNCHANGED <<cbVars, lbRest, rlRest, ssRest, rtVars, sticky_sessions, bgVars>>

\* The requests of the model, what they carry (client address, cookie
\* "gateway_session" with "" for none, path) and how the upstream call of a
\* forwarded request can end: with a response, with httpx.TimeoutException,
\* with httpx.ConnectError, with another exception inside the try block of
\* _forward_request, or with an exception before it (reading the body).
Reqs == {1, 2}
NoSession == ""
GWRequests ==
    {[client_ip |-> "192.168.1.100", session_id |-> NoSession, path |-> ServicePath],
     [client_ip |-> "10.0.0.2", session_id |-> "s1", path |-> ServicePath],
     [client_ip |-> "10.0.0.2", session_id |-> NoSession, path |-> PlainPath]}
ForwardOutcomes == {"ok", "timeout", "connect_error", "error", "request_error"}

\* The route of the model, "/api/v1/auth/*", and its service.
ServiceRoute ==
    [path |-> <<Slash, "api", Slash, "v1", Slash, "auth", Slash, Star>>,
     service_name |-> "auth"]

\* route_config.upstream_instances: the instances in list order.
UpstreamInstances == [k \in Instances |-> k]

\* A request that has not arrived.
FreshRequest ==
    [pc |-> "new", client_ip |-> "", session_id |-> NoSession, path |-> <<>>,
     instance |-> 0, status |-> 0, outcome |-> "none"]

\* A counter of ConnectionStats, 0 before the instance has its record.
CountOf(counter, i) == IF i \in DOMAIN counter THEN counter[i] ELSE 0

\* A counter of ConnectionStats with the one of instance i set to n.
WithCount(counter, i, n) ==
    [k \in DOMAIN counter \cup {i} |-> IF k = i THEN n ELSE counter[k]]

\* _select_upstream_instance: the results it can give: the instance, 0 for
\* None, the cursor and the session map it leaves, and whether it has called
\* record_request_start for the instance.
SelectUpstreamInstance(client_ip, session_id) ==
    LET sticky == session_id # NoSession /\ sticky_sessions
        look == IF sticky
                   THEN GetSessionInstance(session_id, UpstreamInstances, sessions)
                   ELSE [instance |-> 0, sessions |-> sessions]
    IN  IF look.instance # 0
           THEN {[instance |-> look.instance, index |-> round_robin_index,
                  started |-> FALSE, sessions |-> look.sessions]}
           ELSE {[instance |-> r.instance, index |-> r.index,
                  started |-> r.instance # 0,
                  sessions |-> IF r.instance # 0 /\ sticky
                                  THEN CreateSession(session_id, r.instance,
                                                     look.sessions)
                                  ELSE look.sessions] :
                 r \in SelectInstance(client_ip)}

\* Mutation: the rate of an instance without requests is 0.
SuccessRate_ZeroWhenIdle(total, failed) ==
    IF total = 0
       THEN [num |-> 0, den |-> 1]
       ELSE [num |-> total - failed, den |-> total]

\* ConnectionStats.success_rate, as the fraction num/den.
SuccessRate(total, failed) ==
    IF total = 0
       THEN [num |-> 1, den |-> 1]
       ELSE [num |-> total - failed, den |-> total]

\* record_request_start on the three counters of ConnectionStats.
StartRecorded(i) ==
    /\ connection_stats' =
          [k \in DOMAIN connection_stats \cup {i} |->
              IF k = i
                 THEN [active_connections |-> ActiveConnections(i) + 1]
                 ELSE connection_stats[k]]
    /\ total_requests' = WithCount(total_requests, i, CountOf(total_requests, i) + 1)
    /\ failed_requests' = WithCount(failed_requests, i, CountOf(failed_requests, i))

\* record_request_end on the three counters of ConnectionStats.
EndRecorded(i, success) ==
    IF i \notin DOMAIN connection_stats
       THEN UNCHANGED <<connection_stats, total_requests, failed_requests>>
       ELSE /\ connection_stats' =
                  [connection_stats EXCEPT ![i] =
                      [active_connections |->
                          IF ActiveConnections(i) - 1 > 0
                             THEN ActiveConnections(i) - 1
                             ELSE 0]]
            /\ failed_requests' =
                  IF success THEN failed_requests
                  ELSE WithCount(failed_requests, i, CountOf(failed_requests, i) + 1)
            /\ UNCHANGED total_requests

\* A request arrives: RateLimitingMiddleware.dispatch up to call_next or to
\* the 429 response.  The limiter is outside AuthenticationMiddleware, so
\* request.state has no user_id yet; a gateway with rate limiting disabled
\* has no limiter in its stack.  Requests arrive in the order of their names.
GWDispatch(c, client_ip, session_id, path) ==
    /\ requests[c].pc = "new"
    /\ \A b \in Reqs : b < c => requests[b].pc # "new"
    /\ LET d == IF rl_enabled
                   THEN DispatchLimits(
                           GenerateRateLimitKeys(client_ip, NoUser, path),
                           rate_limits)
                   ELSE [limited |-> FALSE, key |-> NoKey, limits |-> rate_limits]
       IN  /\ rate_limits' = d.limits
           /\ requests' = [requests EXCEPT ![c] =
                 IF d.limited
                    THEN [FreshRequest EXCEPT !.pc = "limited", !.status = 429]
                    ELSE [FreshRequest EXCEPT !.pc = "admitted",
                                              !.client_ip = client_ip,
                                              !.session_id = session_id,
                                              !.path = path]]
    /\ UNCHANGED <<round_robin_index, connection_stats, sessions,
                   total_requests, failed_requests, metrics_total_requests,
                   metrics_total_errors, upstream_failures>>
    /\ GWFrame

\* _handle_proxy_request up to the upstream call of _forward_request, or to
\* the HTTPException 404 or 503 that ends it before.
GWHandle(c) ==
    /\ requests[c].pc = "admitted"
    /\ IF FindMatchingRoute(requests[c].path) = NoRoute
          THEN /\ requests' = [requests EXCEPT ![c] =
                     [FreshRequest EXCEPT !.pc = "done", !.status = 404]]
               /\ UNCHANGED <<round_robin_index, connection_stats, sessions,
                              total_requests, failed_requests>>
          ELSE \E r \in SelectUpstreamInstance(requests[c].client_ip,
                                               requests[c].session_id) :
                  /\ round_robin_index' = r.index
                  /\ sessions' = r.sessions
                  /\ IF r.started
                        THEN StartRecorded(r.instance)
                        ELSE UNCHANGED <<connection_stats, total_requests,
                                         failed_requests>>
                  /\ requests' = [requests EXCEPT ![c] =
                        IF r.instance = 0
                           THEN [FreshRequest EXCEPT !.pc = "done", !.status = 503]
                           ELSE [FreshRequest EXCEPT !.pc = "forwarding",
                                                     !.instance = r.instance]]
    /\ UNCHANGED <<rate_limits, metrics_total_requests, metrics_total_errors,
                   upstream_failures>>
    /\ GWFrame

\* The status that _forward_request and the except clauses of
\* _handle_proxy_request give a request whose upstream call ended so.
StatusOf(outcome) ==
    CASE outcome = "ok" -> 200
      [] outcome = "timeout" -> 504
      [] outcome = "connect_error" -> 502
      [] outcome = "error" -> 502
      [] outcome = "request_error" -> 502

\* Mutation: an upstream call that times out or cannot connect marks its
\* instance unhealthy.
GWComplete_MarksUnhealthy(c, outcome) ==
    /\ requests[c].pc = "forwarding"
    /\ requests' = [requests EXCEPT ![c].pc = "done",
                                    ![c].status = StatusOf(outcome),
                                    ![c].outcome = outcome]
    /\ CASE outcome = "ok" ->
               /\ EndRecorded(requests[c].instance, TRUE)
               /\ metrics_total_requests' = metrics_total_requests + 1
               /\ UNCHANGED metrics_total_errors
         [] outcome = "request_error" ->
               /\ EndRecorded(requests[c].instance, FALSE)
               /\ metrics_total_errors' = metrics_total_errors + 1
               /\ UNCHANGED metrics_total_requests
         [] OTHER ->
               UNCHANGED <<connection_stats, total_requests, failed_requests,
                           metrics_total_requests, metrics_total_errors>>
    /\ upstream_failures' =
          CASE outcome = "ok" -> 0
            [] outcome = "request_error" -> upstream_failures
            [] OTHER -> upstream_failures + 1
    /\ healthy' = IF outcome \in {"timeout", "connect_error"}
                     THEN [healthy EXCEPT ![requests[c].instance] = FALSE]
                     ELSE healthy
    /\ UNCHANGED <<round_robin_index, sessions, rate_limits>>
    /\ UNCHANGED <<cbVars, algorithm, health_check_enabled, weight, selected,
                   last_ip, lb_event, recent, recent_from, first_window, pinned,
                   rlRest, ssRest, rtVars, sticky_sessions, bgVars>>

\* The upstream call of a forwarded request ends, and _handle_proxy_request
\* with it.  A response is recorded as a success.  The three exceptions of
\* the call are turned into HTTPException by _forward_request, which
\* _handle_proxy_request raises again at once ("except HTTPException:
\* raise"); only an exception that is no HTTPException reaches the clause
\* that records the failure.
GWComplete(c, outcome) ==
    /\ requests[c].pc = "forwarding"
    /\ requests' = [requests EXCEPT ![c].pc = "done",
                                    ![c].status = StatusOf(outcome),
                                    ![c].outcome = outcome]
    /\ CASE outcome = "ok" ->
               /\ EndRecorded(requests[c].instance, TRUE)
               /\ metrics_total_requests' = metrics_total_requests + 1
               /\ UNCHANGED metrics_total_errors
         [] outcome = "request_error" ->
               /\ EndRecorded(requests[c].instance, FALSE)
               /\ metrics_total_errors' = metrics_total_errors + 1
               /\ UNCHANGED metrics_total_requests
         [] OTHER ->
               UNCHANGED <<connection_stats, total_requests, failed_requests,
                           metrics_total_requests, metrics_total_errors>>
    /\ upstream_failures' =
          CASE outcome = "ok" -> 0
            [] outcome = "request_error" -> upstream_failures
            [] OTHER -> upstream_failures + 1
    /\ UNCHANGED <<round_robin_index, sessions, rate_limits>>
    /\ GWFrame

\* The inbound request is cancelled while its upstream call is in flight:
\* asyncio.CancelledError is raised at the await of the call.  It is no
\* Exception, so no except clause of _forward_request or of
\* _handle_proxy_request catches it, and there is no finally clause.
GWCancel(c) ==
    /\ requests[c].pc = "forwarding"
    /\ requests' = [requests EXCEPT ![c].pc = "cancelled",
                                    ![c].outcome = "cancelled"]
    /\ UNCHANGED <<connection_stats, total_requests, failed_requests,
                   metrics_total_requests, metrics_total_errors,
                   upstream_failures, round_robin_index, sessions, rate_limits>>
    /\ GWFrame

\* The algorithms of the gateways of the model: the two that read what the
\* forwarder writes, the cursor and the connection counts.
GWAlgorithms == {ROUND_ROBIN, LEAST_CONNECTIONS}

\* APIGateway.__init__ with a GatewayConfig of the caller's choice: one
\* route, the balancer and the limiter as configured, no request yet.
GWInit ==
    /\ LBInit
    /\ algorithm \in GWAlgorithms
    /\ Len(weight) <= MaxUpstreams
    /\ rl_enabled \in BOOLEAN
    /\ by_ip = TRUE
    /\ by_user = TRUE
    /\ by_service = TRUE
    /\ default_rpm \in 1..MaxLimit
    /\ default_burst = MaxLimit
    /\ rate_limits = <<>>
    /\ current_time = 0
    /\ rl_keys = <<>>
    /\ rl_response = "none"
    /\ rl_key = NoKey
    /\ admitted = <<>>
    /\ last_limited = NoKey
    /\ SSIdle
    /\ routes = <<ServiceRoute>>
    /\ rt_path = <<>>
    /\ rt_result = NoRoute
    /\ rt_status = 0
    /\ sticky_sessions \in BOOLEAN
    /\ total_requests = <<>>
    /\ failed_requests = <<>>
    /\ metrics_total_requests = 0
    /\ metrics_total_errors = 0
    /\ requests = [c \in Reqs |-> FreshRequest]
    /\ upstream_failures = 0

NextGW ==
    \/ \E c \in Reqs : \E r \in GWRequests :
          GWDispatch(c, r.client_ip, r.session_id, r.path)
    \/ \E c \in Reqs : GWHandle(c)
    \/ \E c \in Reqs : \E outcome \in ForwardOutcomes : GWComplete(c, outcome)
    \/ \E c \in Reqs : GWCancel(c)
    \/ \E i \in Instances : \E is_healthy \in BOOLEAN :
          HealthCheckInstance(i, is_healthy)

InitGW == GWInit /\ CBIdle /\ BGIdle

SpecGW == InitGW /\ [][NextGW]_vars

(***************************************************************************)
(* The words of the claims about the way of a request.                     *)
(***************************************************************************)
\* The steps of request c: its dispatch by the limiter, the handler up to the
\* upstream call, and the end of the upstream call.
GWDispatchStep(c) == requests[c].pc = "new" /\ requests'[c].pc # "new"
GWHandleStep(c) == requests[c].pc = "admitted" /\ requests'[c].pc # "admitted"
GWCompleteStep(c) == requests[c].pc = "forwarding" /\ requests'[c].pc = "done"

\* The buckets of the dimensions that are configured for the request that
\* the step has admitted.
ConfiguredKeys(c) ==
    LET keys == GenerateRateLimitKeys(requests'[c].client_ip, NoUser,
                                      requests'[c].path)
    IN  {keys[k] : k \in 1..Len(keys)}

\* The length of the bucket of a key before the step.
BucketLength(key) ==
    IF key \in DOMAIN rate_limits THEN Len(rate_limits[key]) ELSE 0

\* C13: a request that a dimension of the limiter rejects appends no
\* timestamp to any bucket, selects no instance and changes no
\* ConnectionStats, then and later; a request that no dimension rejects
\* appends exactly one timestamp, the current time, to the bucket of every
\* dimension configured for it and to no other.
C13_RejectedRequestLeavesNoTrace ==
    [][\A c \in Reqs :
          /\ (rl_enabled /\ GWDispatchStep(c)) =>
                IF requests'[c].status = 429
                   THEN /\ \A key \in DOMAIN rate_limits' :
                              Len(rate_limits'[key]) <= BucketLength(key)
                        /\ requests'[c].pc = "limited"
                        /\ requests'[c].instance = 0
                        /\ UNCHANGED <<round_robin_index, connection_stats,
                                       total_requests, failed_requests, sessions>>
                   ELSE /\ ConfiguredKeys(c) \subseteq DOMAIN rate_limits'
                        /\ \A key \in ConfiguredKeys(c) :
                              /\ Len(rate_limits'[key]) =
                                    YoungerThan(key, RateWindow) + 1
                              /\ rate_limits'[key][Len(rate_limits'[key])] =
                                    current_time
                        /\ \A key \in DOMAIN rate_limits' \ ConfiguredKeys(c) :
                              /\ key \in DOMAIN rate_limits
                              /\ rate_limits'[key] = rate_limits[key]
          /\ requests[c].pc = "limited" => requests'[c] = requests[c]]_vars

\* A request is rejected by the service dimension after the dimension of its
\* own address, checked first, has let it pass: the bucket of the address
\* was created and is empty.
C13_Witness ==
    /\ \E c \in Reqs : requests[c].pc = "limited"
    /\ \E key \in DOMAIN rate_limits :
          key.type = "ip" /\ rate_limits[key] = <<>>
    /\ \E key \in DOMAIN rate_limits :
          key.type = "service" /\ Len(rate_limits[key]) >= default_rpm

\* The request of the step has a session that is pinned.
Pinned(c) ==
    /\ sticky_sessions
    /\ requests[c].session_id # NoSession
    /\ requests[c].session_id \in DOMAIN sessions

\* The path of the request of the step matches a route.
RouteMatched(c) ==
    \E k \in 1..Len(routes) : ClaimedMatch(requests[c].path, routes[k].path)

\* C17: with health checking enabled and no session pinned, a request whose
\* route has only unhealthy instances is answered 503 without an upstream
\* call, and no counter of any ConnectionStats changes.
C17_AllUnhealthyIs503 ==
    [][\A c \in Reqs :
          (/\ GWHandleStep(c)
           /\ RouteMatched(c)
           /\ health_check_enabled
           /\ \A i \in Instances : ~healthy[i]
           /\ ~Pinned(c))
          => /\ requests'[c].pc = "done"
             /\ requests'[c].status = 503
             /\ UNCHANGED <<connection_stats, total_requests, failed_requests>>]_vars

\* A request is answered 503 while every instance of the route is unhealthy,
\* after an earlier request was forwarded to one of them.
C17_Witness ==
    /\ \E c \in Reqs : requests[c].pc = "done" /\ requests[c].status = 503
    /\ health_check_enabled
    /\ Instances # {}
    /\ \A i \in Instances : ~healthy[i]
    /\ \E i \in DOMAIN total_requests : total_requests[i] > 0

\* C18: the active_connections of every instance is the number of requests
\* that are being forwarded to it.
C18_ActiveConnectionsCountInFlight ==
    \A i \in Instances :
       ActiveConnections(i) =
          Cardinality({c \in Reqs : /\ requests[c].pc = "forwarding"
                                    /\ requests[c].instance = i})

\* C19: when the upstream call of a request fails, failed_requests of its
\* instance and the error total of the metrics each go up by one.
C19_FailureIsRecorded ==
    [][\A c \in Reqs :
          (GWCompleteStep(c) /\ requests'[c].outcome # "ok")
          => /\ CountOf(failed_requests', requests[c].instance) =
                   CountOf(failed_requests, requests[c].instance) + 1
             /\ metrics_total_errors' = metrics_total_errors + 1]_vars

\* The breaker of the upstream would be open: as many upstream calls in a
\* row have failed as its threshold says, and no time has passed since.
BreakerWouldBeOpen == upstream_failures >= failure_threshold

\* C20: a failed upstream call becomes 502 (connect failure, other
\* exception) or 504 (timeout), and a request that finds the breaker of its
\* upstream open becomes 503 without an upstream call.
C20_EveryFailureMapped ==
    [][\A c \in Reqs :
          /\ GWCompleteStep(c) =>
                /\ requests'[c].outcome = "timeout" => requests'[c].status = 504
                /\ requests'[c].outcome \in {"connect_error", "error", "request_error"}
                      => requests'[c].status = 502
          /\ (GWHandleStep(c) /\ RouteMatched(c) /\ BreakerWouldBeOpen)
                => /\ requests'[c].pc = "done"
                   /\ requests'[c].status = 503]_vars

\* C21: an upstream call that exceeds the read timeout is answered 504 and
\* adds exactly one to the failure counter of the breaker of the upstream.
C21_TimeoutCountsOnBreaker ==
    [][\A c \in Reqs :
          (GWCompleteStep(c) /\ requests'[c].outcome = "timeout")
          => /\ requests'[c].status = 504
             /\ failure_count' = failure_count + 1]_vars

\* The request of the step is cancelled while its upstream call is in flight.
GWCancelStep(c) ==
    requests[c].pc = "forwarding" /\ requests'[c].pc = "cancelled"

\* C22: the cancellation of a request whose upstream call is in flight takes
\* one off the active_connections of the instance that was chosen for it.
C22_CancellationReleasesConnection ==
    [][\A c \in Reqs : \A i \in Instances :
          (GWCancelStep(c) /\ requests[c].instance = i /\ ActiveConnections(i) > 0)
          => ActiveConnections(i)' = ActiveConnections(i) - 1]_vars

\* C27: the success rate of every instance is 1 while it has no request and
\* (total_requests - failed_requests) / total_requests otherwise.
C27_SuccessRate ==
    \A i \in Instances :
       LET total == CountOf(total_requests, i)
           failed == CountOf(failed_requests, i)
           rate == SuccessRate(total, failed)
       IN  /\ rate.den > 0
           /\ total = 0 => rate.num = rate.den
           /\ total > 0 => rate.num * total = (total - failed) * rate.den

\* An instance has one request that failed and one that did not, and another
\* instance has none yet.
C27_Witness ==
    /\ \E i \in Instances :
          CountOf(total_requests, i) = 2 /\ CountOf(failed_requests, i) = 1
    /\ \E i \in Instances : CountOf(total_requests, i) = 0

\* C28: with health checking and sticky sessions enabled, no request is
\* forwarded to an instance whose healthy flag is false.
C28_NeverForwardsToUnhealthy ==
    [][\A c \in Reqs :
          (/\ GWHandleStep(c)
           /\ health_check_enabled
           /\ sticky_sessions
           /\ requests'[c].pc = "forwarding")
          => healthy[requests'[c].instance]]_vars

HTTP_GET == "http_get"
HTTP_POST == "http_post"
TCP_CONNECT == "tcp_connect"
CUSTOM == "custom"
HealthCheckMethod == {HTTP_GET, HTTP_POST, TCP_CONNECT, CUSTOM}

\* "Keep only last 100 health check results"
HistoryCap == 100

\* The fields of the balancer other than instance.healthy.
lbNoHealth == <<algorithm, health_check_enabled, weight, round_robin_index,
                connection_stats, selected, last_ip, lb_event,
                recent, recent_from, first_window, pinned>>

HCFrame == UNCHANGED <<cbVars, lbNoHealth, rlState, ssVars, rtVars, gwVars,
                       glVars, mrVars, exVars>>

\* The callbacks that a caller registers.
Callbacks == {"alert"}

\* What the await of a probe can end with, by method: the status of the
\* response, or an exception (connection refused, timeout).
OutcomesOf(method) ==
    CASE method \in {HTTP_GET, HTTP_POST} -> {"status_200", "status_500", "exception"}
      [] method = TCP_CONNECT -> {"connected", "exception"}
      [] OTHER -> {"returned"}

\* _http_health_check, _tcp_health_check and _custom_health_check: whether
\* the check raises, and the healthy of the result it returns otherwise.
\* Only _tcp_health_check catches the exception of its await.
InnerCheck(method, outcome) ==
    CASE method \in {HTTP_GET, HTTP_POST} ->
            [raised |-> outcome = "exception", healthy |-> outcome = "status_200"]
      [] method = TCP_CONNECT ->
            [raised |-> FALSE, healthy |-> outcome = "connected"]
      [] OTHER ->
            [raised |-> FALSE, healthy |-> TRUE]

\* The history of an instance after the append and the pop(0).
Capped(history) ==
    IF Len(history) > HistoryCap THEN Tail(history) ELSE history

\* Mutation: the flag of the instance is left for the end of the cycle.
InstanceAfterProbe_Deferred(i, is_healthy) == healthy

\* instance.healthy = result.healthy, and instance.healthy = False in the
\* except clause.
InstanceAfterProbe(i, is_healthy) == [healthy EXCEPT ![i] = is_healthy]

\* The callbacks up to and with the first that raises, all of them if none
\* does.
RECURSIVE UpToFaulty(_)
UpToFaulty(callbacks) ==
    IF callbacks = <<>> THEN <<>>
    ELSE IF Head(callbacks) = "faulty" THEN <<"faulty">>
    ELSE <<Head(callbacks)>> \o UpToFaulty(Tail(callbacks))

\* Mutation: the call of a callback is not in a try of its own.
RunCallbacks_NoCatch(callbacks) ==
    [called |-> UpToFaulty(callbacks),
     escaped |-> UpToFaulty(callbacks) # <<>>
                 /\ UpToFaulty(callbacks)[Len(UpToFaulty(callbacks))] = "faulty"]

\* The loop over self._health_callbacks: the callbacks that are called, and
\* whether an exception of one of them leaves the loop.  Each call is in a
\* try of its own that catches Exception.
RunCallbacks(callbacks) == [called |-> callbacks, escaped |-> FALSE]

\* check_instance_health from the end of its await on.  The except clause
\* stores the flag and the time and returns: after a probe that raised it
\* skips the history and the callbacks.
CheckInstanceHealth(i, outcome) ==
    LET r == InnerCheck(hc_method, outcome)
        cb == IF r.raised THEN [called |-> <<>>, escaped |-> FALSE]
                          ELSE RunCallbacks(health_callbacks)
        ok == ~r.raised /\ ~cb.escaped
    IN  /\ healthy' = InstanceAfterProbe(i, ok /\ r.healthy)
        /\ last_health_check' = [last_health_check EXCEPT ![i] = current_time]
        /\ health_history' =
              IF r.raised THEN health_history
              ELSE [health_history EXCEPT ![i] = Capped(Append(@, r.healthy))]
        /\ hc_called' = cb.called
        /\ hc_result' = [instance |-> i, healthy |-> ok /\ r.healthy,
                         outcome |-> outcome]

\* The results that the histories hold.
RECURSIVE TotalHistory(_)
TotalHistory(k) ==
    IF k = 0 THEN 0 ELSE Len(health_history[k]) + TotalHistory(k - 1)

\* HealthChecker.__init__ on a config of the caller's choice, and the list
\* of ServiceInstance that the caller will hand to the checker, each with
\* the defaults healthy = True and last_health_check = None.
HCInit ==
    /\ algorithm = ROUND_ROBIN
    /\ health_check_enabled = TRUE
    /\ \E n \in 0..MaxChecked :
          /\ weight = [i \in 1..n |-> 1]
          /\ healthy = [i \in 1..n |-> TRUE]
          /\ hc_probe = [i \in 1..n |-> "idle"]
          /\ last_health_check = [i \in 1..n |-> -1]
          /\ health_history = [i \in 1..n |-> <<>>]
    /\ LBFresh
    /\ hc_method \in HealthCheckMethod
    /\ hc_running = FALSE
    /\ hc_task = 0
    /\ hc_loops = <<>>
    /\ health_callbacks = <<>>
    /\ hc_caller = "idle"
    /\ hc_event = "none"
    /\ hc_result = NoResult
    /\ hc_called = <<>>

\* Mutation: a start does not look at self._running.
HCStart_NoGuard ==
    /\ hc_caller = "idle"
    /\ Len(hc_loops) < MaxLoops
    /\ hc_running' = TRUE
    /\ hc_loops' = Append(hc_loops, "created")
    /\ hc_task' = Len(hc_loops) + 1
    /\ hc_event' = "start"
    /\ UNCHANGED <<hc_method, hc_probe, last_health_check, health_history,
                   health_callbacks, hc_caller, hc_result, hc_called,
                   healthy, current_time>>
    /\ HCFrame

\* start_continuous_health_checks: nothing in it suspends.
HCStart ==
    /\ hc_caller = "idle"
    /\ IF hc_running
          THEN /\ hc_event' = "start_ignored"
               /\ UNCHANGED <<hc_running, hc_loops, hc_task>>
          ELSE /\ Len(hc_loops) < MaxLoops
               /\ hc_running' = TRUE
               /\ hc_loops' = Append(hc_loops, "created")
               /\ hc_task' = Len(hc_loops) + 1
               /\ hc_event' = "start"
    /\ UNCHANGED <<hc_method, hc_probe, last_health_check, health_history,
                   health_callbacks, hc_caller, hc_result, hc_called,
                   healthy, current_time>>
    /\ HCFrame

\* stop_continuous_health_checks up to "await self._task".  The cancel of
\* the loop task cancels the gather it awaits and with it every probe of
\* the cycle: none of them runs another line of check_instance_health.
HCStopBegin ==
    /\ hc_caller = "idle"
    /\ IF ~hc_running
          THEN /\ hc_event' = "stop_ignored"
               /\ UNCHANGED <<hc_running, hc_loops, hc_probe, hc_caller>>
          ELSE /\ hc_running' = FALSE
               /\ IF hc_task # 0
                     THEN /\ hc_loops' =
                                [hc_loops EXCEPT ![hc_task] =
                                    IF @ = "done" THEN "done" ELSE "cancelled"]
                          /\ hc_probe' =
                                IF hc_loops[hc_task] = "probing"
                                   THEN [i \in DOMAIN hc_probe |-> "idle"]
                                   ELSE hc_probe
                          /\ hc_caller' = "stopping"
                          /\ hc_event' = "stop_begin"
                     ELSE /\ hc_event' = "stop"
                          /\ UNCHANGED <<hc_loops, hc_probe, hc_caller>>
    /\ UNCHANGED <<hc_method, hc_task, last_health_check, health_history,
                   health_callbacks, hc_result, hc_called,
                   healthy, current_time>>
    /\ HCFrame

\* The cancelled loop task ends: asyncio.CancelledError is no Exception, so
\* the except clause of the loop does not catch it.
HCLoopCancelled(t) ==
    /\ hc_loops[t] = "cancelled"
    /\ hc_loops' = [hc_loops EXCEPT ![t] = "done"]
    /\ hc_event' = "cancelled"
    /\ UNCHANGED <<hc_method, hc_running, hc_task, hc_probe, last_health_check,
                   health_history, health_callbacks, hc_caller, hc_result,
                   hc_called, healthy, current_time>>
    /\ HCFrame

\* stop_continuous_health_checks from the end of "await self._task" on.
HCStopEnd ==
    /\ hc_caller = "stopping"
    /\ hc_loops[hc_task] = "done"
    /\ hc_task' = 0
    /\ hc_caller' = "idle"
    /\ hc_event' = "stop"
    /\ UNCHANGED <<hc_method, hc_running, hc_loops, hc_probe, last_health_check,
                   health_history, health_callbacks, hc_result, hc_called,
                   healthy, current_time>>
    /\ HCFrame

\* health_check_loop at "while self._running", at its first run and after
\* each sleep: check_all_instances creates one check_instance_health per
\* instance and awaits the gather of them; without instances it returns at
\* once and the loop sleeps again.
HCLoopStep(t) ==
    /\ hc_loops[t] \in {"created", "sleeping"}
    /\ IF ~hc_running
          THEN /\ hc_loops' = [hc_loops EXCEPT ![t] = "done"]
               /\ hc_event' = "loop_exit"
               /\ UNCHANGED hc_probe
          ELSE IF Instances = {}
          THEN /\ hc_loops' = [hc_loops EXCEPT ![t] = "sleeping"]
               /\ hc_event' = "cycle_empty"
               /\ UNCHANGED hc_probe
          ELSE /\ TotalHistory(Len(weight)) + Len(weight) <= MaxProbes
               /\ hc_loops' = [hc_loops EXCEPT ![t] = "probing"]
               /\ hc_probe' = [i \in DOMAIN hc_probe |-> "pending"]
               /\ hc_event' = "cycle"
    /\ UNCHANGED <<hc_method, hc_running, hc_task, last_health_check,
                   health_history, health_callbacks, hc_caller, hc_result,
                   hc_called, healthy, current_time>>
    /\ HCFrame

\* The await of the probe of instance i ends, and check_instance_health of
\* that instance runs to its return.
HCProbeComplete(i, outcome) ==
    /\ hc_probe[i] = "pending"
    /\ outcome \in OutcomesOf(hc_method)
    /\ CheckInstanceHealth(i, outcome)
    /\ hc_probe' = [hc_probe EXCEPT ![i] = "done"]
    /\ hc_event' = "probe"
    /\ UNCHANGED <<hc_method, hc_running, hc_task, hc_loops, health_callbacks,
                   hc_caller, current_time>>
    /\ HCFrame

\* The gather of check_all_instances returns, the loop logs the cycle and
\* goes to sleep.
HCCycleEnd(t) ==
    /\ hc_loops[t] = "probing"
    /\ \A i \in DOMAIN hc_probe : hc_probe[i] = "done"
    /\ hc_loops' = [hc_loops EXCEPT ![t] = "sleeping"]
    /\ hc_probe' = [i \in DOMAIN hc_probe |-> "idle"]
    /\ hc_event' = "cycle_end"
    /\ UNCHANGED <<hc_method, hc_running, hc_task, last_health_check,
                   health_history, health_callbacks, hc_caller, hc_result,
                   hc_called, healthy, current_time>>
    /\ HCFrame

\* add_health_callback
HCAddCallback(callback) ==
    /\ Len(health_callbacks) < MaxCallbacks
    /\ health_callbacks' = Append(health_callbacks, callback)
    /\ hc_event' = "add_callback"
    /\ UNCHANGED <<hc_method, hc_running, hc_task, hc_loops, hc_probe,
                   last_health_check, health_history, hc_caller, hc_result,
                   hc_called, healthy, current_time>>
    /\ HCFrame

\* Time passes.
HCTick ==
    /\ current_time < MaxCheckTime
    /\ current_time' = current_time + 1
    /\ hc_event' = "tick"
    /\ UNCHANGED <<hc_method, hc_running, hc_task, hc_loops, hc_probe,
                   last_health_check, health_history, health_callbacks,
                   hc_caller, hc_result, hc_called, healthy>>
    /\ HCFrame

NextHC ==
    \/ HCStart
    \/ HCStopBegin
    \/ \E t \in DOMAIN hc_loops : HCLoopCancelled(t)
    \/ HCStopEnd
    \/ \E t \in DOMAIN hc_loops : HCLoopStep(t)
    \/ \E i \in Instances : \E outcome \in OutcomesOf(hc_method) :
          HCProbeComplete(i, outcome)
    \/ \E t \in DOMAIN hc_loops : HCCycleEnd(t)
    \/ \E callback \in Callbacks : HCAddCallback(callback)
    \/ HCTick

InitHC ==
    /\ HCInit
    /\ CBIdle /\ RLIdle /\ SSIdle /\ RTIdle /\ GWIdle /\ GLIdle /\ MRIdle /\ EXIdle

SpecHC == InitHC /\ [][NextHC]_vars

(***************************************************************************)
(* The words of the claims about the health checker.                       *)
(***************************************************************************)
\* The probe of instance i ends in the step.
HCProbeStep(i) == hc_probe[i] = "pending" /\ hc_probe'[i] = "done"

\* The outcomes of a probe that classify the instance as healthy.
HealthyOutcomes == {"status_200", "connected", "returned"}

\* The loop tasks that have not ended.
LiveLoops == {t \in DOMAIN hc_loops : hc_loops[t] # "done"}

\* C23: after every probe of an instance, whatever its outcome, the healthy
\* flag is the classification of the outcome, last_health_check is the time
\* of the probe, the result is the last of the history of the instance, which
\* keeps the latest HistoryCap results, and every registered callback was
\* called with it.
C23_EveryProbeIsRecorded ==
    [][\A i \in Instances :
          HCProbeStep(i) =>
             /\ healthy'[i] = (hc_result'.outcome \in HealthyOutcomes)
             /\ last_health_check'[i] = current_time
             /\ health_history'[i] =
                   LET appended == Append(health_history[i], healthy'[i])
                   IN  IF Len(appended) > HistoryCap
                          THEN SubSeq(appended, 2, Len(appended))
                          ELSE appended
             /\ hc_called' = health_callbacks]_vars

\* C24: a cycle starts the probes of all instances together, and the end of
\* the probe of one instance sets the healthy flag and last_health_check of
\* that instance in the same step, whatever the probes of the others do; it
\* touches no other instance.
C24_ProbesAreIndependent ==
    [][/\ hc_event' = "cycle" => \A i \in Instances : hc_probe'[i] = "pending"
       /\ \A i \in Instances :
             HCProbeStep(i) =>
                /\ healthy'[i] = (hc_result'.outcome \in HealthyOutcomes)
                /\ last_health_check'[i] = current_time
                /\ \A j \in Instances \ {i} :
                      /\ hc_probe'[j] = hc_probe[j]
                      /\ healthy'[j] = healthy[j]
                      /\ last_health_check'[j] = last_health_check[j]]_vars

\* The probe of the second instance has ended and marked it unhealthy while
\* the probe of the first is still pending: the balancer already leaves the
\* second out.
C24_Witness ==
    /\ Len(weight) = 2
    /\ hc_probe[1] = "pending"
    /\ hc_probe[2] = "done"
    /\ ~healthy[2]
    /\ last_health_check[2] = current_time
    /\ current_time > 0
    /\ last_health_check[1] = -1
    /\ HealthyInstances = <<1>>

\* C25: at most one loop task is alive at a time, and a start while running
\* creates none; when stop has returned the task is cancelled and cleared
\* and no probe is pending, so none ends later; a start after it creates a
\* new loop task.
C25_OneLoopCleanStop ==
    /\ [](Cardinality(LiveLoops) <= 1)
    /\ []((hc_caller = "idle" /\ ~hc_running) =>
             /\ hc_task = 0
             /\ LiveLoops = {}
             /\ \A i \in Instances : hc_probe[i] # "pending")
    /\ [][/\ hc_event' = "start_ignored" => hc_loops' = hc_loops
          /\ (hc_event' = "start" /\ hc_loops' # hc_loops) =>
                /\ hc_task' \notin DOMAIN hc_loops
                /\ hc_loops'[hc_task'] = "created"
                /\ hc_running'
          /\ (\E i \in Instances : HCProbeStep(i)) => hc_running]_vars

\* A second loop probes after the first was stopped in the middle of a cycle.
C25_Witness ==
    /\ Len(hc_loops) = 2
    /\ hc_loops[1] = "done"
    /\ hc_loops[2] = "probing"
    /\ hc_task = 2
    /\ hc_running
    /\ \E i \in Instances : last_health_check[i] = -1 /\ hc_probe[i] = "pending"

(***************************************************************************)
(* HealthChecker: callbacks that raise                                     *)
(***************************************************************************)
\* The callbacks that a caller registers: one that returns and one that
\* raises an Exception.
Hooks == {"alert", "faulty"}

\* add_health_callback, for the callbacks above.
HCAddHook(callback) ==
    /\ Len(health_callbacks) < MaxHooks
    /\ health_callbacks' = Append(health_callbacks, callback)
    /\ hc_event' = "add_callback"
    /\ UNCHANGED <<hc_method, hc_running, hc_task, hc_loops, hc_probe,
                   last_health_check, health_history, hc_caller, hc_result,
                   hc_called, healthy, current_time>>
    /\ HCFrame

\* A caller awaits check_instance_health of instance i, and the probe ends
\* with outcome: the method runs from the end of its await to its return.
HCCheck(i, outcome) ==
    /\ outcome \in OutcomesOf(hc_method)
    /\ TotalHistory(Len(weight)) < MaxProbes
    /\ CheckInstanceHealth(i, outcome)
    /\ hc_event' = "check"
    /\ UNCHANGED <<hc_method, hc_running, hc_task, hc_loops, hc_probe,
                   health_callbacks, hc_caller, current_time>>
    /\ HCFrame

NextCK ==
    \/ \E callback \in Hooks : HCAddHook(callback)
    \/ \E i \in Instances : \E outcome \in OutcomesOf(hc_method) :
          HCCheck(i, outcome)
    \/ HCTick

\* A checker for one instance.
InitCK == InitHC /\ Len(weight) = 1

SpecCK == InitCK /\ [][NextCK]_vars

\* C36: when the probe of a check has returned a result and a registered
\* callback raises, every registered callback is still called, the check
\* returns the classification of the probe, and the healthy flag of the
\* instance is that classification.
C36_CallbackErrorIsContained ==
    [][(/\ hc_event' = "check"
        /\ hc_result'.outcome # "exception"
        /\ \E k \in 1..Len(health_callbacks) : health_callbacks[k] = "faulty")
          => /\ hc_called' = health_callbacks
             /\ hc_result'.healthy = (hc_result'.outcome \in HealthyOutcomes)
             /\ healthy'[hc_result'.instance] =
                   (hc_result'.outcome \in HealthyOutcomes)]_vars

\* A healthy instance was probed and found healthy with a callback that
\* raises registered before one that returns: both were called and the
\* instance is still healthy.
C36_Witness ==
    /\ hc_event = "check"
    /\ hc_result.outcome \in HealthyOutcomes
    /\ health_callbacks = <<"faulty", "alert">>
    /\ hc_called = <<"faulty", "alert">>
    /\ hc_result.healthy
    /\ healthy[hc_result.instance]

(***************************************************************************)
(* APIGateway.start and stop, and the health-check loop of the balancer    *)
(***************************************************************************)
GLFrame == UNCHANGED <<cbVars, lbNoHealth, rlVars, ssVars, rtVars, gwVars,
                       mrVars, exVars>>

\* The fields of the health checker that the loop of the balancer leaves.
hcRest == <<hc_method, hc_running, hc_task, hc_loops, hc_probe, health_history,
            health_callbacks, hc_caller, hc_event, hc_result, hc_called>>

\* A loop task that start_health_checks has created and that has not run.
NewLoop == [pc |-> "created", pending |-> {}]

\* APIGateway.__init__ with the instances of its routes, and a config that
\* enables health checking or not.
GLInit ==
    /\ algorithm = ROUND_ROBIN
    /\ health_check_enabled \in BOOLEAN
    /\ \E n \in 0..MaxChecked :
          /\ weight = [i \in 1..n |-> 1]
          /\ healthy = [i \in 1..n |-> TRUE]
          /\ last_health_check = [i \in 1..n |-> -1]
    /\ LBFresh
    /\ hc_method = HTTP_GET
    /\ hc_running = FALSE
    /\ hc_task = 0
    /\ hc_loops = <<>>
    /\ hc_probe = <<>>
    /\ health_history = <<>>
    /\ health_callbacks = <<>>
    /\ hc_caller = "idle"
    /\ hc_event = "none"
    /\ hc_result = NoResult
    /\ hc_called = <<>>
    /\ GLIdle

\* APIGateway.start: _start_health_checks hands every instance of every
\* route to LoadBalancer.start_health_checks, which creates the loop task
\* and keeps no reference to it.
GLStart ==
    /\ gw_phase \in {"new", "stopped"}
    /\ gw_phase' = "started"
    /\ IF health_check_enabled /\ Instances # {}
          THEN /\ Len(lb_loops) < MaxLoops
               /\ lb_loops' = Append(lb_loops, NewLoop)
          ELSE UNCHANGED lb_loops
    /\ gl_event' = "start"
    /\ UNCHANGED <<healthy, last_health_check, hcRest>>
    /\ GLFrame

\* APIGateway.stop: it closes the HTTP client and stops the aggregator and
\* the metrics.
GLStop ==
    /\ gw_phase = "started"
    /\ gw_phase' = "stopped"
    /\ gl_event' = "stop"
    /\ UNCHANGED <<lb_loops, healthy, last_health_check, hcRest>>
    /\ GLFrame

\* health_check_loop of the balancer at "while True", at its first run and
\* after each sleep: one health_check_instance per instance, gathered.
GLLoopStep(t) ==
    /\ lb_loops[t].pc \in {"created", "sleeping"}
    /\ lb_loops' = [lb_loops EXCEPT ![t] = [pc |-> "probing", pending |-> Instances]]
    /\ gl_event' = "cycle"
    /\ UNCHANGED <<gw_phase, healthy, last_health_check, hcRest>>
    /\ GLFrame

\* The await of health_check_instance of instance i ends: the verdict (False
\* when the probe raised) and the time are stored in the instance.
GLProbeComplete(t, i, is_healthy) ==
    /\ i \in lb_loops[t].pending
    /\ healthy' = [healthy EXCEPT ![i] = is_healthy]
    /\ last_health_check' = [last_health_check EXCEPT ![i] = current_time]
    /\ lb_loops' = [lb_loops EXCEPT ![t].pending = @ \ {i}]
    /\ gl_event' = "probe"
    /\ UNCHANGED <<gw_phase, hcRest>>
    /\ GLFrame

\* The gather returns and the loop goes to sleep.
GLCycleEnd(t) ==
    /\ lb_loops[t].pc = "probing"
    /\ lb_loops[t].pending = {}
    /\ lb_loops' = [lb_loops EXCEPT ![t].pc = "sleeping"]
    /\ gl_event' = "cycle_end"
    /\ UNCHANGED <<gw_phase, healthy, last_health_check, hcRest>>
    /\ GLFrame

NextGL ==
    \/ GLStart
    \/ GLStop
    \/ \E t \in DOMAIN lb_loops : GLLoopStep(t)
    \/ \E t \in DOMAIN lb_loops : \E i \in Instances : \E is_healthy \in BOOLEAN :
          GLProbeComplete(t, i, is_healthy)
    \/ \E t \in DOMAIN lb_loops : GLCycleEnd(t)

InitGL ==
    GLInit /\ CBIdle /\ RLIdle /\ SSIdle /\ RTIdle /\ GWIdle /\ MRIdle /\ EXIdle

SpecGL == InitGL /\ [][NextGL]_vars

\* C26: when stop has returned, no health-check loop task that the gateway
\* started is alive, and no probe changes the healthy flag of an instance.
C26_StopCancelsHealthLoop ==
    /\ [](gw_phase = "stopped" =>
             \A t \in DOMAIN lb_loops : lb_loops[t].pc = "done")
    /\ [][gw_phase = "stopped" => healthy' = healthy]_vars

(***************************************************************************)
(* One balancer for the instances of every route                           *)
(***************************************************************************)
MRFrame == UNCHANGED <<cbVars, rlVars, ssVars, rtVars, gwVars, hcVars, glVars,
                       exVars>>

\* The routes of the model.
MRRoutes == {1, 2}

\* The list comprehension of select_instance on the list it is handed.
HealthyAmong(insts) == SelectSeq(insts, LAMBDA i : ~health_check_enabled \/ healthy[i])

\* APIGateway.__init__ with two routes, each with instances of its own, and
\* one round robin balancer.
MRInit ==
    /\ algorithm = ROUND_ROBIN
    /\ health_check_enabled \in BOOLEAN
    /\ \E n1, n2 \in 1..MaxRouteInstances :
          /\ upstreams = <<[k \in 1..n1 |-> k], [k \in 1..n2 |-> n1 + k]>>
          /\ weight = [i \in 1..(n1 + n2) |-> 1]
          /\ healthy = [i \in 1..(n1 + n2) |-> TRUE]
    /\ LBFresh
    /\ mr_route = 0
    /\ mr_last = [r \in MRRoutes |-> 0]

\* select_instance for a request of route r, as _select_upstream_instance
\* calls it: with route_config.upstream_instances.
MRSelect(r) ==
    /\ LET insts == HealthyAmong(upstreams[r])
           res == IF insts = <<>>
                     THEN [instance |-> 0, index |-> round_robin_index]
                     ELSE RoundRobinSelect(insts)
       IN  /\ selected' = res.instance
           /\ round_robin_index' = res.index
           /\ mr_last' = [mr_last EXCEPT ![r] = res.instance]
    /\ mr_route' = r
    /\ lb_event' = "select"
    /\ UNCHANGED <<algorithm, health_check_enabled, weight, healthy,
                   connection_stats, last_ip, recent, recent_from,
                   first_window, pinned, upstreams>>
    /\ MRFrame

NextMR == \E r \in MRRoutes : MRSelect(r)

InitMR ==
    /\ MRInit
    /\ CBIdle /\ RLIdle /\ SSIdle /\ RTIdle /\ GWIdle /\ HCIdle /\ GLIdle /\ EXIdle

SpecMR == InitMR /\ [][NextMR]_vars

\* The instance after instance i in the list, the first after the last.
RECURSIVE PositionIn(_, _)
PositionIn(insts, i) ==
    IF insts = <<>> \/ Head(insts) = i THEN 1 ELSE 1 + PositionIn(Tail(insts), i)

NextInOrder(insts, i) == insts[(PositionIn(insts, i) % Len(insts)) + 1]

\* C30: a selection for a route returns the instance that follows, in the
\* list of that route, the instance selected last for the route, whatever
\* was selected for the other route in between.
C30_EachRouteCyclesItsOwnList ==
    [][\A r \in MRRoutes :
          (mr_route' = r /\ mr_last[r] # 0)
          => selected' = NextInOrder(upstreams[r], mr_last[r])]_vars

(***************************************************************************)
(* APIGateway: the middleware stack                                        *)
(***************************************************************************)
\* What the other components' variables do during a step of the stack.
rlConfig == <<rl_enabled, by_ip, by_user, by_service, default_rpm, default_burst>>
rlHistory == <<rl_keys, rl_response, rl_key, admitted, last_limited>>
MWFrame == UNCHANGED <<cbVars, lbVars, rlConfig, rlHistory, ssVars, rtVars, gwVars,
                       hcVars, glVars, mrVars, mtVars, urlVars, scVars>>

\* The requests of the model: their client address, their bearer token ("" for
\* none) and their path; the one token that verifies, and its user.
NoToken == ""
ProtectedPath == <<Slash, "api", Slash, "v1", Slash, "users", Slash, "me">>
MWRequests ==
    [client_ip : {"192.168.1.100", "10.0.0.2"},
     token : {NoToken, "forged", "token_of_u1"},
     path : {ServicePath, ProtectedPath}]

\* AuthConfig.public_paths, the default.
PublicPaths ==
    {<<Slash, "health">>, <<Slash, "metrics">>,
     <<Slash, "api", Slash, "v1", Slash, "auth", Slash, "login">>,
     <<Slash, "api", Slash, "v1", Slash, "auth", Slash, "register">>}

\* _is_public_path: none of the default paths ends in a star.
IsPublicPath(path) == path \in PublicPaths

\* _validate_token: user_data["user_id"] of a token that verifies, NoUser
\* for None.
ValidateToken(token) == IF token = "token_of_u1" THEN "u1" ELSE NoUser

\* Starlette's add_middleware inserts at the head of user_middleware, and
\* build_middleware_stack wraps the app in it from the tail on: the
\* middleware added last is the outermost.
AddMiddleware(stack, middleware) == <<middleware>> \o stack

\* _setup_middleware, CORS and tracing being enabled as they are by default.
SetupMiddleware(auth_enabled, limiter_enabled) ==
    LET s1 == AddMiddleware(<<>>, "cors")
        s2 == AddMiddleware(s1, "tracing")
        s3 == IF auth_enabled THEN AddMiddleware(s2, "authentication") ELSE s2
        s4 == IF limiter_enabled THEN AddMiddleware(s3, "rate_limiting") ELSE s3
    IN  AddMiddleware(s4, "transformation")

\* APIGateway.__init__ on a config of the caller's choice: the limiter keys
\* on the address, and on the user if by_user is set.
MWInit ==
    /\ rl_enabled \in BOOLEAN
    /\ by_ip = TRUE
    /\ by_user \in BOOLEAN
    /\ by_service = FALSE
    /\ default_rpm \in 1..MaxLimit
    /\ default_burst \in 1..MaxLimit
    /\ rate_limits = <<>>
    /\ current_time = 0
    /\ rl_keys = <<>>
    /\ rl_response = "none"
    /\ rl_key = NoKey
    /\ admitted = <<>>
    /\ last_limited = NoKey
    /\ mw_auth_enabled \in BOOLEAN
    /\ mw_stack = SetupMiddleware(mw_auth_enabled, rl_enabled)
    /\ mw_req = NoRequest

\* A request arrives at the outermost middleware; the one before it has
\* its response.
MWArrive(client_ip, token, path) ==
    /\ mw_req.at = 0
    /\ mw_req' = [at |-> 1, client_ip |-> client_ip, token |-> token,
                  path |-> path, user_id |-> NoUser, status |-> 0]
    /\ UNCHANGED <<mw_auth_enabled, mw_stack, rate_limits, current_time>>
    /\ MWFrame

\* The middleware that the request is at.
MWCurrent ==
    IF mw_req.at \in 1..Len(mw_stack) THEN mw_stack[mw_req.at] ELSE "none"

\* CORS, tracing and transformation hand the request on.
MWPass ==
    /\ MWCurrent \in {"cors", "tracing", "transformation"}
    /\ mw_req' = [mw_req EXCEPT !.at = @ + 1]
    /\ UNCHANGED <<mw_auth_enabled, mw_stack, rate_limits, current_time>>
    /\ MWFrame

\* RateLimitingMiddleware.dispatch up to call_next or to the 429 response:
\* the keys are made of what request.state holds at that moment.
MWRateLimit ==
    /\ MWCurrent = "rate_limiting"
    /\ LET keys == GenerateRateLimitKeys(mw_req.client_ip, mw_req.user_id,
                                         mw_req.path)
           d == DispatchLimits(keys, rate_limits)
       IN  IF ~rl_enabled
              THEN /\ mw_req' = [mw_req EXCEPT !.at = @ + 1]
                   /\ UNCHANGED rate_limits
              ELSE /\ rate_limits' = d.limits
                   /\ mw_req' = IF d.limited
                                   THEN [mw_req EXCEPT !.at = 0, !.status = 429]
                                   ELSE [mw_req EXCEPT !.at = @ + 1]
    /\ UNCHANGED <<mw_auth_enabled, mw_stack, current_time>>
    /\ MWFrame

\* AuthenticationMiddleware.dispatch up to call_next or to the 401 response.
MWAuthenticate ==
    /\ MWCurrent = "authentication"
    /\ mw_req' =
          IF IsPublicPath(mw_req.path) \/ ~mw_auth_enabled
             THEN [mw_req EXCEPT !.at = @ + 1]
          ELSE IF mw_req.token = NoToken \/ ValidateToken(mw_req.token) = NoUser
             THEN [mw_req EXCEPT !.at = 0, !.status = 401]
          ELSE [mw_req EXCEPT !.at = @ + 1,
                              !.user_id = ValidateToken(mw_req.token)]
    /\ UNCHANGED <<mw_auth_enabled, mw_stack, rate_limits, current_time>>
    /\ MWFrame

\* The request has passed every middleware and the handler answers it.
MWHandle ==
    /\ mw_req.at = Len(mw_stack) + 1
    /\ mw_req' = [mw_req EXCEPT !.at = 0, !.status = 200]
    /\ UNCHANGED <<mw_auth_enabled, mw_stack, rate_limits, current_time>>
    /\ MWFrame

\* Time passes, up to a later instant.
MWTick ==
    /\ \E t \in Instants :
          /\ t > current_time
          /\ current_time' = t
    /\ UNCHANGED <<mw_auth_enabled, mw_stack, mw_req, rate_limits>>
    /\ MWFrame

NextMW ==
    \/ \E r \in MWRequests : MWArrive(r.client_ip, r.token, r.path)
    \/ MWPass
    \/ MWRateLimit
    \/ MWAuthenticate
    \/ MWHandle
    \/ MWTick

InitMW ==
    /\ MWInit
    /\ CBIdle /\ LBIdle /\ SSIdle /\ RTIdle /\ GWIdle
    /\ HCIdle /\ GLIdle /\ MRIdle /\ MTFresh /\ URLIdle /\ SCIdle

SpecMW == InitMW /\ [][NextMW]_vars

\* C34: with the by-user dimension and authentication enabled, a request
\* with a valid bearer token that the gateway has admitted and answered is
\* recorded in the bucket "user:<id>" of its user.
C34_UserBucketIsUsed ==
    (/\ rl_enabled
     /\ by_user
     /\ mw_auth_enabled
     /\ mw_req.status = 200
     /\ mw_req.user_id # NoUser)
        => /\ [type |-> "user", id |-> <<mw_req.user_id>>] \in DOMAIN rate_limits
           /\ rate_limits[[type |-> "user", id |-> <<mw_req.user_id>>]] # <<>>

(***************************************************************************)
(* GatewayMetrics                                                          *)
(***************************************************************************)
\* What the other components' variables do during a step of the metrics.
MTFrame == UNCHANGED <<cbVars, lbVars, rlVars, ssVars, rtVars, sticky_sessions,
                       total_requests, failed_requests, requests,
                       upstream_failures, hcVars, glVars, mrVars, mwVars,
                       urlVars, scVars>>

\* What the calls of the model are made with: status codes on both sides of
\* 400, durations (duration * 1000, in milliseconds) on both sides of every
\* edge, two services and two error types.
StatusCodes == {200, 399, 400, 502}
DurationsMs == {0, 49, 50, 99, 100, 249, 250, 499, 500, 999, 1000, 1001}
MetricServices == {"auth", "users"}
ErrorTypes == {"ConnectError", "KeyError"}

\* ServiceMetrics(service_name=...): the counters of a service without
\* requests; error_counts is a defaultdict(int).
NewServiceMetrics ==
    [total_requests |-> 0, successful_requests |-> 0, failed_requests |-> 0,
     error_counts |-> <<>>]

\* counter[key] += 1 on a defaultdict(int).
Incremented(counter, key) ==
    [k \in DOMAIN counter \cup {key} |->
        IF k = key
           THEN (IF key \in DOMAIN counter THEN counter[key] ELSE 0) + 1
           ELSE counter[k]]

\* Mutation: a duration on an edge is put in no bucket.
BucketOfDuration_OpenEdges(duration_ms) ==
    IF duration_ms < 50 THEN {"0-50ms"}
    ELSE IF duration_ms = 50 THEN {}
    ELSE IF duration_ms < 100 THEN {"50-100ms"}
    ELSE IF duration_ms = 100 THEN {}
    ELSE IF duration_ms < 250 THEN {"100-250ms"}
    ELSE IF duration_ms = 250 THEN {}
    ELSE IF duration_ms < 500 THEN {"250-500ms"}
    ELSE IF duration_ms = 500 THEN {}
    ELSE IF duration_ms < 1000 THEN {"500-1000ms"}
    ELSE IF duration_ms = 1000 THEN {}
    ELSE {"1000ms+"}

\* The chain of comparisons of _update_response_time_bucket: the buckets
\* that it adds one to.
BucketOfDuration(duration_ms) ==
    IF duration_ms < 50 THEN {"0-50ms"}
    ELSE IF duration_ms < 100 THEN {"50-100ms"}
    ELSE IF duration_ms < 250 THEN {"100-250ms"}
    ELSE IF duration_ms < 500 THEN {"250-500ms"}
    ELSE IF duration_ms < 1000 THEN {"500-1000ms"}
    ELSE {"1000ms+"}

\* _update_response_time_bucket
UpdateResponseTimeBucket(buckets, duration_ms) ==
    [b \in DOMAIN buckets |->
        IF b \in BucketOfDuration(duration_ms) THEN buckets[b] + 1 ELSE buckets[b]]

\* _update_service_metrics, on the counters.
UpdateServiceMetrics(metrics, service, status_code) ==
    LET old == IF service \in DOMAIN metrics THEN metrics[service]
                                             ELSE NewServiceMetrics
        new == IF 200 <= status_code /\ status_code < 400
                  THEN [old EXCEPT !.total_requests = @ + 1,
                                   !.successful_requests = @ + 1]
                  ELSE [old EXCEPT !.total_requests = @ + 1,
                                   !.failed_requests = @ + 1]
    IN  [k \in DOMAIN metrics \cup {service} |->
            IF k = service THEN new ELSE metrics[k]]

\* The last statement of record_error: the error is counted for a service
\* that has its counters, and for no other.
ErrorCounted(metrics, service, error_type) ==
    IF service \in DOMAIN metrics
       THEN [metrics EXCEPT ![service].error_counts = Incremented(@, error_type)]
       ELSE metrics

\* The calls recorded so far.
Recorded == metrics_total_requests + metrics_total_errors

\* record_request: nothing in it suspends.
MTRecordRequest(status_code, duration_ms, service) ==
    /\ Recorded < MaxRecorded
    /\ metrics_total_requests' = metrics_total_requests + 1
    /\ status_code_counts' = Incremented(status_code_counts, status_code)
    /\ response_time_buckets' =
          UpdateResponseTimeBucket(response_time_buckets, duration_ms)
    /\ service_metrics' = UpdateServiceMetrics(service_metrics, service, status_code)
    /\ mt_event' = [call |-> "record_request", status_code |-> status_code,
                    duration_ms |-> duration_ms, service |-> service]
    /\ UNCHANGED metrics_total_errors
    /\ MTFrame

\* record_error
MTRecordError(error_type, service) ==
    /\ Recorded < MaxRecorded
    /\ metrics_total_errors' = metrics_total_errors + 1
    /\ service_metrics' = ErrorCounted(service_metrics, service, error_type)
    /\ mt_event' = [call |-> "record_error", error_type |-> error_type,
                    service |-> service]
    /\ UNCHANGED <<metrics_total_requests, status_code_counts,
                   response_time_buckets>>
    /\ MTFrame

NextMT ==
    \/ \E status_code \in StatusCodes : \E duration_ms \in DurationsMs :
       \E service \in MetricServices :
          MTRecordRequest(status_code, duration_ms, service)
    \/ \E error_type \in ErrorTypes : \E service \in MetricServices :
          MTRecordError(error_type, service)

InitMT == CBIdle /\ LBIdle /\ GatewayIdle

SpecMT == InitMT /\ [][NextMT]_vars

(***************************************************************************)
(* The words of the claims about the metrics.                              *)
(***************************************************************************)
\* error_counts[error_type] of a service in the metrics m, 0 when the service
\* or the type has no count.
ErrorCountIn(m, service, error_type) ==
    IF service \in DOMAIN m /\ error_type \in DOMAIN m[service].error_counts
       THEN m[service].error_counts[error_type]
       ELSE 0

\* The sum of the counts of a counter over the keys in keys.
RECURSIVE SumOver(_, _)
SumOver(counter, keys) ==
    IF keys = {} THEN 0
    ELSE LET k == CHOOSE x \in keys : TRUE
         IN  counter[k] + SumOver(counter, keys \ {k})

\* The range of durations, in milliseconds, that the name of a bucket gives.
BucketRange ==
    [b \in BucketNames |->
        CASE b = "0-50ms" -> <<0, 50>>
          [] b = "50-100ms" -> <<50, 100>>
          [] b = "100-250ms" -> <<100, 250>>
          [] b = "250-500ms" -> <<250, 500>>
          [] b = "500-1000ms" -> <<500, 1000>>
          [] OTHER -> <<1000, 1001>>]

\* C32: record_error of error type E for service S adds one to the total of
\* errors and one to the count of E of S, whether or not a request of S was
\* recorded before.
C32_ErrorIsCountedForItsService ==
    [][mt_event'.call = "record_error" =>
          /\ metrics_total_errors' = metrics_total_errors + 1
          /\ ErrorCountIn(service_metrics', mt_event'.service, mt_event'.error_type)
                = ErrorCountIn(service_metrics, mt_event'.service,
                               mt_event'.error_type) + 1]_vars

\* C38: the total of requests is the sum of the status-code counts and the
\* sum of the bucket counts, every service has total_requests =
\* successful_requests + failed_requests, and a record_request adds one to
\* exactly one bucket, one whose range holds the duration.
C38_CountersAgree ==
    /\ [](/\ metrics_total_requests =
                SumOver(status_code_counts, DOMAIN status_code_counts)
          /\ metrics_total_requests = SumOver(response_time_buckets, BucketNames)
          /\ \A service \in DOMAIN service_metrics :
                service_metrics[service].total_requests =
                   service_metrics[service].successful_requests
                   + service_metrics[service].failed_requests)
    /\ [][mt_event'.call = "record_request" =>
             \E b \in BucketNames :
                /\ response_time_buckets'[b] = response_time_buckets[b] + 1
                /\ BucketRange[b][1] <= mt_event'.duration_ms
                /\ mt_event'.duration_ms <= BucketRange[b][2]
                /\ \A other \in BucketNames \ {b} :
                      response_time_buckets'[other] = response_time_buckets[other]]_vars

\* Two requests were recorded, one of 50 ms that succeeded and one slower
\* than a second that failed, for the same service.
C38_Witness ==
    /\ metrics_total_requests = 2
    /\ response_time_buckets["50-100ms"] = 1
    /\ response_time_buckets["1000ms+"] = 1
    /\ \E service \in DOMAIN service_metrics :
          /\ service_metrics[service].successful_requests = 1
          /\ service_metrics[service].failed_requests = 1
    /\ mt_event.call = "record_request"
    /\ mt_event.duration_ms = 50

(***************************************************************************)
(* APIGateway: the upstream URL                                            *)
(***************************************************************************)
\* What the other components' variables do during a step of the builder.
URLFrame == UNCHANGED <<cbVars, lbVars, rlVars, ssVars, rtVars, gwVars,
                        hcVars, glVars, mrVars, mwVars, mtVars, scVars>>

\* instance.url, "http://<host>:<port>", as one character of the model, and
\* the segments that the paths of the model are made of.
BaseUrl == "http://10.0.0.1:8003"
UrlSegments == {"api", "v1", "products", "42"}

\* "/".join(parts)
RECURSIVE JoinSlashes(_)
JoinSlashes(parts) ==
    IF parts = <<>> THEN <<>>
    ELSE IF Len(parts) = 1 THEN Head(parts)
    ELSE Head(parts) \o <<Slash>> \o JoinSlashes(Tail(parts))

\* The paths that the builder is called with: up to MaxSegments segments
\* with slashes between them, as the catch-all route hands them over (without
\* the leading slash) or with it, and with or without a slash at the end.
UrlPaths ==
    {(IF lead THEN <<Slash>> ELSE <<>>)
        \o JoinSlashes([k \in 1..Len(segs) |-> <<segs[k]>>])
        \o (IF trail THEN <<Slash>> ELSE <<>>) :
       segs \in UNION {[1..n -> UrlSegments] : n \in 0..MaxSegments},
       lead \in BOOLEAN, trail \in BOOLEAN}

\* _build_upstream_url
BuildUpstreamUrl(base, path, strip_path_prefix) ==
    LET path_parts == SplitSlashes(StripSlashes(path))
        stripped ==
           IF /\ strip_path_prefix
              /\ Len(path_parts) >= 3
              /\ path_parts[1] = <<"api">>
              /\ path_parts[2] = <<"v1">>
              THEN IF Len(path_parts) > 3
                      THEN <<Slash>>
                           \o JoinSlashes(SubSeq(path_parts, 4, Len(path_parts)))
                      ELSE <<Slash>>
              ELSE path
    IN  <<base>> \o stripped

\* A route and a path of the caller's choice, before the call.
URLInit ==
    /\ url_strip \in BOOLEAN
    /\ url_path \in UrlPaths
    /\ url_result = <<>>

\* One call of _build_upstream_url.
URLBuild ==
    /\ url_result = <<>>
    /\ url_result' = BuildUpstreamUrl(BaseUrl, url_path, url_strip)
    /\ UNCHANGED <<url_strip, url_path>>
    /\ URLFrame

NextURL == URLBuild

InitURL ==
    /\ URLInit
    /\ CBIdle /\ LBIdle /\ RLIdle /\ SSIdle /\ RTIdle /\ GWIdle
    /\ HCIdle /\ GLIdle /\ MRIdle /\ MWIdle /\ MTFresh /\ SCIdle

SpecURL == InitURL /\ [][NextURL]_vars

\* The segments of the path of the call.
UrlParts ==
    LET parts == SplitSlashes(StripSlashes(url_path))
    IN  IF parts = <<<<>>>> THEN <<>> ELSE parts

\* C33: with prefix stripping the URL is the base URL, one slash, and the
\* segments of the path after its leading "api/v1/<service>" or
\* "<service>": nothing after the slash when the path is the prefix alone.
C33_PrefixIsStripped ==
    (url_result # <<>> /\ url_strip /\ UrlParts # <<>>) =>
       /\ url_result[1] = BaseUrl
       /\ Len(url_result) >= 2
       /\ url_result[2] = Slash
       /\ Len(url_result) >= 3 => url_result[3] # Slash
       /\ (Len(UrlParts) >= 3 /\ UrlParts[1] = <<"api">> /\ UrlParts[2] = <<"v1">>)
             => url_result = <<BaseUrl, Slash>>
                                \o JoinSlashes(SubSeq(UrlParts, 4, Len(UrlParts)))
       /\ UrlParts[1] # <<"api">>
             => url_result = <<BaseUrl, Slash>>
                                \o JoinSlashes(SubSeq(UrlParts, 2, Len(UrlParts)))

(***************************************************************************)
(* ServiceClient: the retry loop                                           *)
(***************************************************************************)
\* What the other components' variables do during a step of the client.
SCFrame == UNCHANGED <<cbVars, lbVars, rlVars, ssVars, rtVars, gwVars,
                       hcVars, glVars, mrVars, mwVars, mtVars, urlVars>>

\* What the await of self.client.request can end with: a response with its
\* status code, or an exception of the transport.
Response(status_code) == [kind |-> "response", status_code |-> status_code]
Timeout == [kind |-> "timeout", status_code |-> 0]
ConnectError == [kind |-> "connect_error", status_code |-> 0]
Attempts ==
    {Response(200), Response(204), Response(400), Response(401), Response(404),
     Response(422), Response(500), Timeout, ConnectError}

\* The body of the try: "returned" when the method returns from it, or the
\* exception that it raises.
Raised(attempt) ==
    CASE attempt.kind = "timeout" -> "TimeoutException"
      [] attempt.kind = "connect_error" -> "ConnectError"
      [] attempt.status_code \in {200, 201, 204} -> "returned"
      [] attempt.status_code = 401 -> "ServiceAuthenticationError"
      [] attempt.status_code = 404 -> "ServiceNotFoundError"
      [] attempt.status_code = 422 -> "ServiceValidationError"
      [] attempt.status_code >= 500 -> "ServiceUnavailableError"
      [] OTHER -> "ServiceCommunicationError"

\* The exceptions that the first except clause raises again.
NotRetried ==
    {"ServiceAuthenticationError", "ServiceNotFoundError", "ServiceValidationError"}

\* The statements after the loop: what is raised when all attempts failed.
AfterLoop(last_exception) ==
    IF last_exception = "TimeoutException"
       THEN "ServiceTimeoutError"
       ELSE "ServiceCommunicationError"

\* A client with a RetryConfig of the caller's choice, before the call.
SCInit ==
    /\ sc_max_attempts \in 0..MaxAttempts
    /\ sc_attempt = 0
    /\ sc_pc = "idle"
    /\ sc_last_exception = "none"
    /\ sc_result = "none"
    /\ sc_responses = <<>>

\* _execute_with_retry up to the first await of self.client.request, or
\* past a loop over an empty range.
SCStart ==
    /\ sc_pc = "idle"
    /\ IF sc_max_attempts = 0
          THEN /\ sc_pc' = "done"
               /\ sc_result' = AfterLoop(sc_last_exception)
          ELSE /\ sc_pc' = "requesting"
               /\ UNCHANGED sc_result
    /\ UNCHANGED <<sc_max_attempts, sc_attempt, sc_last_exception, sc_responses>>
    /\ SCFrame

\* The await of the request ends: the method returns, raises, or goes to
\* sleep before the next attempt.
SCAttemptEnds(attempt) ==
    /\ sc_pc = "requesting"
    /\ sc_responses' = Append(sc_responses, attempt)
    /\ IF Raised(attempt) = "returned" \/ Raised(attempt) \in NotRetried
          THEN /\ sc_pc' = "done"
               /\ sc_result' = Raised(attempt)
               /\ UNCHANGED sc_last_exception
          ELSE /\ sc_last_exception' = Raised(attempt)
               /\ IF sc_attempt = sc_max_attempts - 1
                     THEN /\ sc_pc' = "done"
                          /\ sc_result' = AfterLoop(Raised(attempt))
                     ELSE /\ sc_pc' = "sleeping"
                          /\ UNCHANGED sc_result
    /\ UNCHANGED <<sc_max_attempts, sc_attempt>>
    /\ SCFrame

\* The sleep ends and the loop goes to its next attempt.
SCWake ==
    /\ sc_pc = "sleeping"
    /\ sc_attempt' = sc_attempt + 1
    /\ sc_pc' = "requesting"
    /\ UNCHANGED <<sc_max_attempts, sc_last_exception, sc_result, sc_responses>>
    /\ SCFrame

NextSC ==
    \/ SCStart
    \/ \E attempt \in Attempts : SCAttemptEnds(attempt)
    \/ SCWake

InitSC ==
    /\ SCInit
    /\ CBIdle /\ LBIdle /\ RLIdle /\ SSIdle /\ RTIdle /\ GWIdle
    /\ HCIdle /\ GLIdle /\ MRIdle /\ MWIdle /\ MTFresh /\ URLIdle

SpecSC == InitSC /\ [][NextSC]_vars

\* An attempt that ended with a 5xx response or an error of the transport.
ServerOrTransportError(attempt) ==
    attempt.kind \in {"timeout", "connect_error"} \/ attempt.status_code >= 500

\* C39: no call makes more than max_attempts attempts, and every attempt
\* that is followed by a sleep and another attempt ended with a 5xx response
\* or an error of the transport.
C39_RetriesOnlyServerErrors ==
    /\ Len(sc_responses) <= sc_max_attempts
    /\ \A k \in 1..Len(sc_responses) :
          (k < Len(sc_responses) \/ sc_pc = "sleeping")
             => ServerOrTransportError(sc_responses[k])

====
